---- MODULE Spec2Model ----
(***************************************************************************)
(* A model of the document question-answering pipeline:                    *)
(*   - QueryProcessor.process_document_queries and the question batch it   *)
(*     runs under an asyncio.Semaphore (app/core/query_processor.py),      *)
(*   - the in-memory answer/document cache (app/services/cache_service.py),*)
(*   - the vector index of EmbeddingEngine (app/core/embedding_engine.py), *)
(*   - LLMClient.generate_response with its rate limiter, token budget and *)
(*     tenacity retry (app/core/llm_client.py).                            *)
(*                                                                         *)
(* Strings are modelled as sequences of tokens (a removable prefix phrase, *)
(* a word, a punctuation mark), so that post-processing is computed and    *)
(* not assumed.  Python's 0-based list positions are the 1-based positions *)
(* of TLA+ sequences.                                                      *)
(***************************************************************************)
EXTENDS Integers, Sequences, FiniteSets, TLC

VARIABLES
    \* ---- one caller of process_document_queries (orchestrator) ----
    questions,      \* the questions[] argument of the calls
    callsLeft,      \* how many more process_document_queries calls the caller makes
    phase,          \* position inside process_document_queries
    document_data,  \* the document_data local of the call
    cache,          \* InMemoryCache.cache: key -> value (entries whose ttl_data deadline has not passed)
    index,          \* EmbeddingEngine index + chunk_metadata, by chunk_id order
    sem,            \* asyncio.Semaphore._value of the running batch
    waiters,        \* asyncio.Semaphore._waiters (FIFO)
    pc,             \* per question task: its position
    results,        \* per question task: what asyncio.gather collects for it
    out,            \* the list returned by the current call
    prevOut,        \* the list returned by the previous call
    llmCalls,       \* LLM generations started during the current call
    expiredSince,   \* has an entry cached by an earlier call expired since that call returned
    raised,         \* question tasks whose processing raised into the handler of
                    \* _process_single_question
    noChunks,       \* question tasks whose retrieval returned no chunk
    \* ---- one LLMClient shared by concurrent question tasks ----
    now,              \* time.time(), in seconds
    today,            \* time.strftime("%Y-%m-%d"), as a day number
    request_times,    \* LLMClient.request_times
    daily_tokens_used,\* LLMClient.daily_tokens_used
    last_reset_date,  \* LLMClient.last_reset_date
    lpc,              \* per question task: its position inside generate_response
    attempt,          \* per question task: tenacity's attempt_number
    wakeAt,           \* per question task: when its asyncio.sleep ends
    blocked,          \* per question task: consecutive attempts, up to the latest,
                      \* that finished with a safety block
    answers,          \* per question task: the answer of _process_single_question
    llmLog,           \* times of the generate_content requests of the last 60 s
    \* ---- CacheService (Redis) behind one caller of the processor ----
    redis_client,     \* CacheService.redis_client: "None" or "client"
    backend,          \* the Redis server: "up" or "down"
    redis_store,      \* the keys the Redis server holds
    cphase,           \* position of the request inside process_document_queries
    cq,               \* the question being processed
    canswers,         \* the answers of the request's questions
    ccallsLeft,       \* requests still to be made
    cacheFailed,      \* a cache operation failed during the request
    \* ---- _get_comprehensive_chunks for one question ----
    scores,           \* per query variation: the similarity of each chunk, x100
    pass_idx,         \* index into search_passes (0-based)
    qi,               \* index into query_variations (0-based)
    all_chunks,       \* the all_chunks dict, in insertion order
    hitsLog,          \* the searches that returned, with their hits, in loop order
    failedAt,         \* the <<pass, variation>> whose search raised
    rphase,           \* "searching", "sorting" or "done"
    relevant_chunks,  \* the list _get_comprehensive_chunks returns
    \* ---- chunk selection and context preparation for one question ----
    vector_chunks,    \* _select_best_chunks(vector_chunks, ...): sorted by score
    clause_matches,   \* _select_best_chunks(..., clause_matches)
    query_type,       \* the QueryType of the question
    chunk_scores,     \* the chunk_scores dict, in insertion order
    context_chunks,   \* what _select_best_chunks returns
    llm_chunks,       \* the chunks _prepare_enhanced_context puts into the prompt
    fphase,           \* "select", "prepare" or "done"
    \* ---- LLMClient._classify_query_type ----
    class_question,   \* the question, as a sequence of phrases
    classified,       \* the QueryType returned, "none" before the call
    \* ---- QueryProcessor._preprocess_query ----
    exp_question,     \* the question, a sequence of characters
    expansions,       \* what steps 1 to 7 append to query_variations
    prioritized,      \* the list returned
    ephase,           \* "expand" or "done"
    \* ---- ClauseMatcher._calculate_enhanced_confidence ----
    match_input,      \* similarity, clause types and what the helpers count in the text
    confidence_data,  \* <<the dict computed>>, empty before the call
    mphase,           \* "match" or "done"
    \* ---- one client's requests to POST /hackrx/run ----
    api_pc,           \* where the request is: "idle", "rate_limit", "auth", "deps", "body", "endpoint", "done"
    api_request,      \* the request: Authorization header, documents, questions
    api_status,       \* the status code of the response, 0 before it
    api_window,       \* len(request_times[client_ip]) of RateLimitMiddleware
    api_served,       \* requests answered so far
    reached,          \* the request has called query_service.process_document_queries
    \* ---- the shared EmbeddingEngine and one question's retrieval ----
    faiss_index,      \* self.index: the vectors, position = chunk_id + 1
    chunk_metadata,   \* self.chunk_metadata: the entry of chunk_id at position chunk_id + 1
    ix_op,            \* the last operation on the index, its document, operations so far
    ix_before,        \* the index and metadata before that operation
    reader_all,       \* all_chunks of the retrieval: one entry per chunk_id
    reader_seen,      \* every (chunk_id, document_id, chunk_index) its searches returned
    reader_left,      \* searches the retrieval has still to make
    reader_result,    \* <<the chunks returned>>, empty before the return
    \* ---- InMemoryCache ----
    mem_cache,        \* self.cache
    ttl_data,         \* self.ttl_data: key -> the time its entry expires
    mem_now,          \* time.time()
    mem_result,       \* <<operation, key, returned value>> of the last call
    last_set          \* history: key -> the latest set of the key not deleted since

orchVars == <<questions, callsLeft, phase, document_data, cache, index,
              sem, waiters, pc, results, out, prevOut, llmCalls, expiredSince,
              raised, noChunks>>

llmVars == <<now, today, request_times, daily_tokens_used, last_reset_date, lpc,
             attempt, wakeAt, blocked, answers, llmLog>>

redisVars == <<redis_client, backend, redis_store, cphase, cq, canswers,
               ccallsLeft, cacheFailed>>

retrVars == <<scores, pass_idx, qi, all_chunks, hitsLog, failedAt, rphase,
              relevant_chunks>>

fusionVars == <<vector_chunks, clause_matches, query_type, chunk_scores,
                context_chunks, llm_chunks, fphase>>

classVars == <<class_question, classified>>
expVars == <<exp_question, expansions, prioritized, ephase>>
matchVars == <<match_input, confidence_data, mphase>>
apiVars == <<api_pc, api_request, api_status, api_window, api_served, reached>>
indexVars == <<faiss_index, chunk_metadata, ix_op, ix_before, reader_all, reader_seen,
               reader_left, reader_result>>
memVars == <<mem_cache, ttl_data, mem_now, mem_result, last_set>>

\* what the actions of one part leave alone
restOfOrch == <<llmVars, redisVars, retrVars, fusionVars, classVars, expVars, matchVars, apiVars, indexVars, memVars>>
restOfLlm == <<orchVars, redisVars, retrVars, fusionVars, classVars, expVars, matchVars, apiVars, indexVars, memVars>>
restOfRedis == <<orchVars, llmVars, retrVars, fusionVars, classVars, expVars, matchVars, apiVars, indexVars, memVars>>
restOfRetr == <<orchVars, llmVars, redisVars, fusionVars, classVars, expVars, matchVars, apiVars, indexVars, memVars>>
restOfFusion == <<orchVars, llmVars, redisVars, retrVars, classVars, expVars, matchVars, apiVars, indexVars, memVars>>
restOfClass == <<orchVars, llmVars, redisVars, retrVars, fusionVars, expVars, matchVars, apiVars, indexVars, memVars>>
restOfExp == <<orchVars, llmVars, redisVars, retrVars, fusionVars, classVars, matchVars, apiVars, indexVars, memVars>>
restOfMatch == <<orchVars, llmVars, redisVars, retrVars, fusionVars, classVars, expVars, apiVars, indexVars, memVars>>
restOfApi == <<orchVars, llmVars, redisVars, retrVars, fusionVars, classVars, expVars, matchVars, indexVars, memVars>>
restOfIndex == <<orchVars, llmVars, redisVars, retrVars, fusionVars, classVars, expVars, matchVars, apiVars, memVars>>
restOfMem == <<orchVars, llmVars, redisVars, retrVars, fusionVars, classVars, expVars, matchVars, apiVars, indexVars>>

vars == <<orchVars, llmVars, redisVars, retrVars, fusionVars, classVars, expVars, matchVars, apiVars, indexVars, memVars>>

----------------------------------------------------------------------------
(* Bounds of the model *)

NumQuestions == 4       \* length of questions[] when the caller makes one call
RepeatQuestions == 2    \* length of questions[] when the caller repeats the call
NumChunks == 2          \* chunks of the document
MaxMemTime == 4         \* seconds the clock of the in-memory cache runs
MaxTtl == 2             \* longest ttl given to a set of the in-memory cache
MaxIndexOps == 3        \* operations other requests make on the shared index
MaxIndexSize == 5       \* vectors the shared index holds, at most
ReaderSearches == 2     \* searches of the retrieval that reads the shared index
SearchK == 2            \* k of these searches
RequestsPerMinute == 2  \* requests_per_minute of RateLimitMiddleware (60 as deployed)
MaxApiRequests == 3     \* requests the client sends
MaxMatches == 4         \* pattern matches of one clause type in a chunk
MaxQuestionWords == 21  \* words of the longest question handed to the expander
MaxExpansions == 25     \* variants steps 1 to 7 generate, at most
MaxPhrases == 3         \* phrases of a question handed to the classifier
MaxCandidates == 8      \* chunks retrieved for a question, at most
NumVariants == 2        \* query variations of the question
RedisCalls == 2         \* requests made through the Redis-backed cache
NumCallers == 2         \* question tasks calling generate_response concurrently
RateLimit == 2          \* LLMClient.rate_limit (GEMINI_RATE_LIMIT), scaled down from 15
MaxTokens == 25         \* settings.MAX_TOKENS, scaled down from 1000000
MaxTime == 70           \* the clock stops here
MaxDays == 1            \* date changes observed
IdleStep == 61          \* seconds that pass in one step while no task sleeps

Questions == {"q1", "q2"}
Url == "https://example.com/policy.pdf"

----------------------------------------------------------------------------
(* Strings *)

EmptyStr == <<>>

NoInfoMsg == <<"I couldn't find relevant information in the document to answer this question.">>
ApologyMsg == <<"I apologize, but I encountered an error while processing this question. Please try again.">>
GatherApologyMsg == <<"I apologize, but I encountered an error processing this question.">>
NoAnswerMsg == <<"I couldn't generate an answer based on the available information.">>

\* prefixes_to_remove (the two lists share these entries; order as in the source)
Prefixes == <<"According to the document, ", "Answer: ">>

\* The texts the LLM backend may return (after _process_response_text).
RawTexts == { <<>>, <<"According to the document, ", "yes">> }

Upper(tok) == IF tok = "yes" THEN "Yes" ELSE tok

RECURSIVE StripPrefixes(_, _)
\* for prefix in prefixes_to_remove: if text.startswith(prefix): text = text[len(prefix):].strip()
StripPrefixes(text, k) ==
    IF k > Len(Prefixes) THEN text
    ELSE IF text # <<>> /\ Head(text) = Prefixes[k]
         THEN StripPrefixes(Tail(text), k + 1)
         ELSE StripPrefixes(text, k + 1)

\* if text and text[0].islower(): text = text[0].upper() + text[1:]
Capitalize(text) ==
    IF text # <<>> THEN <<Upper(Head(text))>> \o Tail(text) ELSE text

\* if text and text[-1] not in '.!?': text += '.'
Punctuate(text) ==
    IF text # <<>> /\ text[Len(text)] \notin {".", "!", "?"}
    THEN Append(text, ".") ELSE text

\* LLMClient._post_process_response (query type GENERAL), then .strip()
PostProcessResponse(text) == Punctuate(Capitalize(StripPrefixes(text, 1)))

PostProcessAnswerNoEmptyCheck(answer) ==
    Punctuate(Capitalize(StripPrefixes(answer, 1)))

\* QueryProcessor._post_process_answer
PostProcessAnswer(answer) ==
    IF answer = <<>> THEN NoAnswerMsg
    ELSE Punctuate(Capitalize(StripPrefixes(answer, 1)))

\* answer_question_with_context followed by _post_process_answer
FinalAnswer(raw) == PostProcessAnswer(PostProcessResponse(raw))

LLMAnswers == { FinalAnswer(raw) : raw \in RawTexts }

----------------------------------------------------------------------------
(* Cache: InMemoryCache *)

DocKey(url) == <<"document", url>>
QaKey(document_id, question) == <<"qa", document_id, question>>

\* InMemoryCache.get: None (here: "miss") for an absent or expired key.
CacheHas(key) == key \in DOMAIN cache

\* InMemoryCache.set
CacheSet(c, key, value) ==
    [k \in DOMAIN c \cup {key} |-> IF k = key THEN value ELSE c[k]]

\* An entry past its deadline: InMemoryCache.get deletes it and returns None, and
\* no operation reads it before; it is removed when its deadline passes
CacheDrop(c, key) == [k \in DOMAIN c \ {key} |-> c[k]]

----------------------------------------------------------------------------
(* Document and index *)

\* DocumentProcessor.process_document_from_url: the parsed document of a URL
Document(url) == [document_id |-> "d1", url |-> url, chunks |-> NumChunks]

\* EmbeddingEngine.add_documents: one vector + metadata entry per chunk,
\* chunk_id = position in the index
AddDocuments(idx, doc) ==
    idx \o [i \in 1..doc.chunks |->
               [document_id |-> doc.document_id, chunk_index |-> i - 1]]

----------------------------------------------------------------------------
(* The question batch: QueryProcessor._process_questions_batch *)

\* semaphore = asyncio.Semaphore(3)
SemaphoreWidthWide == 3 + 1
SemaphoreWidth == 3

Tasks == 1..Len(questions)

NoResult == [kind |-> "none"]
ExceptionResult == [kind |-> "exception"]
\* the (index, answer) tuple a question task returns
ValueResult(i, answer) ==
    [kind |-> "value", index |-> i, answer |-> answer]

\* if not relevant_chunks: return the literal
NoChunksResultEmpty(i) == ValueResult(i, EmptyStr)
NoChunksResult(i) == ValueResult(i, NoInfoMsg)

\* _process_single_question's handler: except Exception -> the canned apology
FailureResultReraised(i) == ExceptionResult
FailureResult(i) == ValueResult(i, ApologyMsg)

RECURSIVE AssembleAppending(_, _, _)
AssembleAppending(res, p, ordered) ==
    IF p > Len(res) THEN ordered
    ELSE IF res[p].kind = "exception"
         THEN AssembleAppending(res, p + 1, Append(ordered, GatherApologyMsg))
         ELSE AssembleAppending(res, p + 1, Append(ordered, res[p].answer))

RECURSIVE Assemble(_, _, _)
\* for result in results: an exception appends the apology, a value is stored
\* at its index
Assemble(res, p, ordered) ==
    IF p > Len(res) THEN ordered
    ELSE IF res[p].kind = "exception"
         THEN Assemble(res, p + 1, Append(ordered, GatherApologyMsg))
         ELSE Assemble(res, p + 1, [ordered EXCEPT ![res[p].index] = res[p].answer])

\* ordered_answers = [''] * len(questions); ...; return ordered_answers[:len(questions)]
OrderedAnswers(res, n) ==
    SubSeq(Assemble(res, 1, [i \in 1..n |-> EmptyStr]), 1, n)

\* LLM generations in flight on behalf of the running request
InFlight == {i \in DOMAIN pc : pc[i] = "generating"}

\* The part of _process_single_question that runs as soon as the semaphore is
\* held: the QA cache lookup.  A hit returns at once (the semaphore is released
\* again); a miss starts retrieval holding the semaphore.
Enter(i) ==
    LET key == QaKey(document_data.document_id, questions[i]) IN
    IF CacheHas(key) /\ cache[key] # EmptyStr
    THEN /\ results' = [results EXCEPT ![i] = ValueResult(i, cache[key])]
         /\ pc' = [pc EXCEPT ![i] = "done"]
         /\ UNCHANGED <<sem, cache>>
    ELSE /\ pc' = [pc EXCEPT ![i] = "retrieving"]
         /\ sem' = sem - 1
         /\ UNCHANGED <<cache, results>>

\* A task runs its first step: async with semaphore
TaskStart(i) ==
    /\ phase = "batch"
    /\ pc[i] = "created"
    /\ \A j \in Tasks : j < i => pc[j] # "created"
    /\ IF sem > 0 /\ waiters = <<>>
       THEN Enter(i) /\ UNCHANGED waiters
       ELSE /\ waiters' = Append(waiters, i)
            /\ pc' = [pc EXCEPT ![i] = "waiting"]
            /\ UNCHANGED <<sem, cache, results>>
    /\ UNCHANGED <<restOfOrch, noChunks, questions, callsLeft, phase, document_data, index, out,
                   prevOut, llmCalls, expiredSince, raised>>

\* The first waiter is woken by a release
TaskResume(i) ==
    /\ phase = "batch"
    /\ pc[i] = "waiting"
    /\ waiters # <<>> /\ Head(waiters) = i
    /\ sem > 0
    /\ waiters' = Tail(waiters)
    /\ Enter(i)
    /\ UNCHANGED <<restOfOrch, noChunks, questions, callsLeft, phase, document_data, index, out,
                   prevOut, llmCalls, expiredSince, raised>>

\* _get_comprehensive_chunks returned no chunk: the literal answer, no LLM call
RetrieveNothing(i) ==
    /\ pc[i] = "retrieving"
    /\ results' = [results EXCEPT ![i] = NoChunksResult(i)]
    /\ noChunks' = noChunks \cup {i}
    /\ pc' = [pc EXCEPT ![i] = "done"]
    /\ sem' = sem + 1
    /\ UNCHANGED <<restOfOrch, questions, callsLeft, phase, document_data, cache,
                   index, waiters, out, prevOut, llmCalls, expiredSince, raised>>

\* Chunks were found: answer_question_with_context is called
RetrieveChunks(i) ==
    /\ pc[i] = "retrieving"
    /\ pc' = [pc EXCEPT ![i] = "generating"]
    /\ llmCalls' = llmCalls + 1
    /\ UNCHANGED <<restOfOrch, noChunks, questions, callsLeft, phase, document_data, cache,
                   index, sem, waiters, results, out, prevOut, expiredSince, raised>>

\* The LLM answered: post-process, write the QA cache (ttl 3600), return
GenerateOk(i, raw) ==
    /\ pc[i] = "generating"
    /\ LET final == FinalAnswer(raw)
           key == QaKey(document_data.document_id, questions[i]) IN
        /\ cache' = CacheSet(cache, key, final)
        /\ results' = [results EXCEPT ![i] = ValueResult(i, final)]
    /\ pc' = [pc EXCEPT ![i] = "done"]
    /\ sem' = sem + 1
    /\ UNCHANGED <<restOfOrch, noChunks, questions, callsLeft, phase, document_data, index, waiters,
                   out, prevOut, llmCalls, expiredSince, raised>>

\* answer_question_with_context raised LLMProcessingError (blocked, quota,
\* transient): caught by _process_single_question
GenerateFails(i) ==
    /\ pc[i] = "generating"
    /\ results' = [results EXCEPT ![i] = FailureResult(i)]
    /\ raised' = raised \cup {i}
    /\ pc' = [pc EXCEPT ![i] = "done"]
    /\ sem' = sem + 1
    /\ UNCHANGED <<restOfOrch, noChunks, questions, callsLeft, phase, document_data, cache,
                   index, waiters, out, prevOut, llmCalls, expiredSince>>

\* An exception leaves the task (raised outside or inside the handler of
\* _process_single_question); gather(return_exceptions=True) collects it
TaskRaises(i) ==
    /\ pc[i] \in {"retrieving", "generating"}
    /\ results' = [results EXCEPT ![i] = ExceptionResult]
    /\ pc' = [pc EXCEPT ![i] = "done"]
    /\ sem' = sem + 1
    /\ UNCHANGED <<restOfOrch, noChunks, questions, callsLeft, phase, document_data, cache,
                   index, waiters, out, prevOut, llmCalls, expiredSince, raised>>

\* asyncio.gather returns; the answers are put in order and returned
Gather ==
    /\ phase = "batch"
    /\ \A i \in Tasks : pc[i] = "done"
    /\ out' = OrderedAnswers(results, Len(questions))
    /\ phase' = "returned"
    /\ UNCHANGED <<restOfOrch, noChunks, questions, callsLeft, document_data, cache, index,
                   sem, waiters, pc, results, prevOut, llmCalls, expiredSince, raised>>
----------------------------------------------------------------------------
(* QueryProcessor.process_document_queries *)

\* _process_document_with_cache: the cached document, or fetch + parse and
\* cache.set(cache_key, document_data, ttl=7200)
ProcessDocument ==
    /\ phase = "idle"
    /\ callsLeft > 0
    /\ LET key == DocKey(Url) IN
        IF CacheHas(key)
        THEN /\ document_data' = cache[key]
             /\ UNCHANGED cache
        ELSE /\ document_data' = Document(Url)
             /\ cache' = CacheSet(cache, key, Document(Url))
    /\ phase' = "indexing"
    /\ callsLeft' = callsLeft - 1
    /\ llmCalls' = 0
    /\ out' = <<>>
    /\ UNCHANGED <<restOfOrch, noChunks, questions, index, sem, waiters, pc, results, prevOut,
                   expiredSince, raised>>

\* process_document_from_url raised DocumentProcessingError: the call raises
\* QueryProcessingError
ProcessDocumentFails ==
    /\ phase = "idle"
    /\ callsLeft > 0
    /\ ~CacheHas(DocKey(Url))
    /\ phase' = "failed"
    /\ callsLeft' = callsLeft - 1
    /\ llmCalls' = 0
    /\ out' = <<>>
    /\ UNCHANGED <<restOfOrch, noChunks, questions, document_data, cache, index, sem, waiters, pc,
                   results, prevOut, expiredSince, raised>>

\* _ensure_document_indexed, then the question tasks are created
EnsureIndexed ==
    /\ phase = "indexing"
    /\ index' = AddDocuments(index, document_data)
    /\ phase' = "batch"
    /\ pc' = [i \in Tasks |-> "created"]
    /\ results' = [i \in Tasks |-> NoResult]
    /\ sem' = SemaphoreWidth
    /\ waiters' = <<>>
    /\ UNCHANGED <<restOfOrch, noChunks, questions, callsLeft, document_data, cache, out,
                   prevOut, llmCalls, expiredSince, raised>>

EnsureIndexedFailsIgnored ==
    /\ phase = "indexing"
    /\ phase' = "batch"
    /\ pc' = [i \in Tasks |-> "created"]
    /\ results' = [i \in Tasks |-> NoResult]
    /\ sem' = SemaphoreWidth
    /\ waiters' = <<>>
    /\ UNCHANGED <<restOfOrch, noChunks, questions, callsLeft, document_data, cache, index,
                   out, prevOut, llmCalls, expiredSince, raised>>

\* add_documents raised EmbeddingGenerationError: the call raises
EnsureIndexedFails ==
    /\ phase = "indexing"
    /\ phase' = "failed"
    /\ UNCHANGED <<restOfOrch, noChunks, questions, callsLeft, document_data, cache, index,
                   sem, waiters, pc, results, out, prevOut, llmCalls,
                   expiredSince, raised>>

\* The caller has the answers (or the error) and may call again
Return ==
    /\ phase \in {"returned", "failed"}
    /\ prevOut' = out
    /\ phase' = "idle"
    /\ pc' = [i \in Tasks |-> "none"]
    /\ results' = [i \in Tasks |-> NoResult]
    /\ expiredSince' = FALSE
    /\ raised' = {}
    /\ noChunks' = {}
    /\ UNCHANGED <<restOfOrch, questions, callsLeft, document_data, cache, index,
                   sem, waiters, out, llmCalls>>

\* Time passes beyond the deadline InMemoryCache.set stored for a key (between
\* two calls: a call is short against the TTLs of 7200 s and 3600 s)
Expire(key) ==
    /\ key \in DOMAIN cache
    /\ phase = "idle"
    /\ callsLeft > 0
    /\ cache' = CacheDrop(cache, key)
    /\ expiredSince' = (expiredSince \/ prevOut # <<>>)
    /\ UNCHANGED <<restOfOrch, noChunks, questions, callsLeft, phase, document_data, index,
                   sem, waiters, pc, results, out, prevOut, llmCalls, raised>>

AllKeys == {DocKey(Url)} \cup {QaKey(Document(Url).document_id, q) : q \in Questions}

(* LLMClient.generate_response, called by concurrent question tasks *)

Callers == 1..NumCallers

\* _check_rate_limits: the window of request_times that is kept
Window == 60
\* _check_rate_limits: wait_time = 61 - (current_time - self.request_times[0])
SleepBase == 61
\* @retry(stop=stop_after_attempt(4), ...)
MaxAttemptsMore == 4 + 1
MaxAttempts == 4

Min(a, b) == IF a < b THEN a ELSE b
Max(a, b) == IF a > b THEN a ELSE b

\* wait_exponential(multiplier=1, min=2, max=15) after attempt number n
Backoff(n) == Max(2, Min(2 ^ (n - 1), 15))

\* tenacity stops after MaxAttempts attempts
RetryAlways(n) == TRUE
RetryAllowed(n) == n < MaxAttempts

\* len(prompt) + len(response) of a generation
TotalChars == {35, 70}

\* _estimate_tokens: int(int(total_chars / 3.5) * 1.2)
EstimateTokens(chars) == (((chars * 2) \div 7) * 6) \div 5

\* self.daily_tokens_used >= self.settings.MAX_TOKENS * 0.95
OverQuota(used) == used * 100 >= MaxTokens * 95

\* request_times = [t for t in request_times if current_time - t < 60]
Recent(times, t) == SelectSeq(times, LAMBDA x : t - x < Window)

\* The log of generate_content requests keeps the latest RateLimit + 1 of
\* them: enough to tell whether more than RateLimit fall into one window
Logged(log, t) ==
    LET l == Append(log, t) IN IF Len(l) > RateLimit + 1 THEN Tail(l) ELSE l

\* The rest of _check_rate_limits (daily reset, quota check) and, with the
\* quota left, the first attempt of _generate_with_enhanced_retry: no await
\* separates them.  A quota error is wrapped by generate_response and caught by
\* _process_single_question.
CheckQuotaAndCall(c) ==
    LET used == IF today # last_reset_date THEN 0 ELSE daily_tokens_used IN
    /\ last_reset_date' = today
    /\ daily_tokens_used' = used
    /\ IF OverQuota(used)
       THEN /\ lpc' = [lpc EXCEPT ![c] = "failed"]
            /\ answers' = [answers EXCEPT ![c] = ApologyMsg]
            /\ UNCHANGED <<attempt, llmLog>>
       ELSE /\ lpc' = [lpc EXCEPT ![c] = "calling"]
            /\ attempt' = [attempt EXCEPT ![c] = 1]
            /\ llmLog' = Logged(llmLog, now)
            /\ UNCHANGED answers

\* generate_response is entered: _check_rate_limits prunes request_times and
\* either sleeps or goes on.  The tasks are interchangeable: they enter in the
\* order of their numbers.
Generate(c) ==
    /\ lpc[c] = "idle"
    /\ \A b \in Callers : b < c => lpc[b] # "idle"
    /\ LET pruned == Recent(request_times, now) IN
        /\ request_times' = pruned
        /\ IF Len(pruned) >= RateLimit - 1 /\ SleepBase - (now - pruned[1]) > 0
           THEN /\ lpc' = [lpc EXCEPT ![c] = "rate_wait"]
                /\ wakeAt' = [wakeAt EXCEPT ![c] = now + SleepBase - (now - pruned[1])]
                /\ UNCHANGED <<daily_tokens_used, last_reset_date, attempt,
                               answers, llmLog>>
           ELSE /\ CheckQuotaAndCall(c)
                /\ UNCHANGED wakeAt
    /\ UNCHANGED <<restOfLlm, now, today, blocked>>

RateWakeEarly(c) ==
    /\ lpc[c] = "rate_wait"
    /\ CheckQuotaAndCall(c)
    /\ wakeAt' = [wakeAt EXCEPT ![c] = 0]
    /\ UNCHANGED <<restOfLlm, now, today, request_times, blocked>>

\* The rate limiter's sleep is over: the limiter does not look at
\* request_times again
RateWake(c) ==
    /\ lpc[c] = "rate_wait"
    /\ now >= wakeAt[c]
    /\ CheckQuotaAndCall(c)
    /\ wakeAt' = [wakeAt EXCEPT ![c] = 0]
    /\ UNCHANGED <<restOfLlm, now, today, request_times, blocked>>

\* The attempt returned a text: _update_token_usage, request_times.append
AttemptOk(c, chars, raw) ==
    /\ lpc[c] = "calling"
    /\ daily_tokens_used' = daily_tokens_used + EstimateTokens(chars)
    /\ request_times' = Append(request_times, now)
    /\ lpc' = [lpc EXCEPT ![c] = "done"]
    /\ answers' = [answers EXCEPT ![c] = FinalAnswer(raw)]
    /\ UNCHANGED <<restOfLlm, now, today, last_reset_date, attempt, wakeAt,
                   blocked, llmLog>>

\* The attempt raised: a safety block (LLMProcessingError) or a transient
\* failure.  tenacity retries either after the backoff, or gives up after the
\* last attempt; generate_response wraps the error and _process_single_question
\* answers with the apology.
AttemptFails(c, kind) ==
    /\ lpc[c] = "calling"
    /\ blocked' = [blocked EXCEPT ![c] = IF kind = "safety" THEN @ + 1 ELSE 0]
    /\ IF RetryAllowed(attempt[c])
       THEN /\ lpc' = [lpc EXCEPT ![c] = "backoff"]
            /\ wakeAt' = [wakeAt EXCEPT ![c] = now + Backoff(attempt[c])]
            /\ UNCHANGED answers
       ELSE /\ lpc' = [lpc EXCEPT ![c] = "failed"]
            /\ answers' = [answers EXCEPT ![c] = ApologyMsg]
            /\ UNCHANGED wakeAt
    /\ UNCHANGED <<restOfLlm, now, today, request_times, daily_tokens_used,
                   last_reset_date, attempt, llmLog>>

\* The backoff is over: the next attempt calls generate_content
Retry(c) ==
    /\ lpc[c] = "backoff"
    /\ now >= wakeAt[c]
    /\ attempt' = [attempt EXCEPT ![c] = @ + 1]
    /\ lpc' = [lpc EXCEPT ![c] = "calling"]
    /\ llmLog' = Logged(llmLog, now)
    /\ wakeAt' = [wakeAt EXCEPT ![c] = 0]
    /\ UNCHANGED <<restOfLlm, now, today, request_times, daily_tokens_used,
                   last_reset_date, blocked, answers>>

Sleepers == {c \in Callers : lpc[c] \in {"rate_wait", "backoff"} /\ wakeAt[c] > now}

\* The clock advances to the time a sleeping task is due, or by IdleStep when
\* no task sleeps
Tick(d) ==
    /\ d \in IF Sleepers = {} THEN {IdleStep} ELSE {wakeAt[c] - now : c \in Sleepers}
    /\ now + d <= MaxTime
    /\ now' = now + d
    /\ llmLog' = Recent(llmLog, now + d)
    /\ UNCHANGED <<restOfLlm, today, request_times, daily_tokens_used,
                   last_reset_date, lpc, attempt, wakeAt, blocked, answers>>

\* The date changes
NewDay ==
    /\ today < MaxDays
    /\ today' = today + 1
    /\ UNCHANGED <<restOfLlm, now, request_times, daily_tokens_used,
                   last_reset_date, lpc, attempt, wakeAt, blocked, answers, llmLog>>

\* LLMClient.__init__
InitClient ==
    /\ now = 0
    /\ today = 0
    /\ request_times = <<>>
    /\ daily_tokens_used = 0
    /\ last_reset_date = 0
    /\ lpc = [c \in Callers |-> "idle"]
    /\ attempt = [c \in Callers |-> 0]
    /\ wakeAt = [c \in Callers |-> 0]
    /\ blocked = [c \in Callers |-> 0]
    /\ answers = [c \in Callers |-> EmptyStr]
    /\ llmLog = <<>>

(* CacheService (Redis) under process_document_queries *)

RedisQuestions == <<"q1", "q2">>

\* CacheService.initialize: redis.from_url assigns redis_client, then ping();
\* any failure is re-raised as CacheError
Initialize ==
    [client |-> "client", raised |-> backend = "down"]

\* "if not self.redis_client: await self.initialize()" stands before the try
\* block of get, set and delete
EnsureClient ==
    IF redis_client = "None" THEN Initialize
    ELSE [client |-> redis_client, raised |-> FALSE]

\* CacheService.get: "raise" (CacheError), "none" (miss, or a failure of the
\* Redis command, logged), or the value
RedisGet(key) ==
    IF EnsureClient.raised THEN [kind |-> "raise"]
    ELSE IF backend = "down" \/ key \notin DOMAIN redis_store THEN [kind |-> "none"]
    ELSE [kind |-> "value", value |-> redis_store[key]]

\* CacheService.set: "raise" (CacheError), or the store after the command
\* (unchanged when the command failed: False is returned)
RedisSet(key, value) ==
    IF EnsureClient.raised THEN [kind |-> "raise"]
    ELSE IF backend = "down" THEN [kind |-> "done", store |-> redis_store]
    ELSE [kind |-> "done", store |-> CacheSet(redis_store, key, value)]

\* _process_document_with_cache: cache_service.get(cache_key).  An exception
\* leaves process_document_queries as QueryProcessingError.
DocCacheGet ==
    /\ cphase = "idle"
    /\ ccallsLeft > 0
    /\ ccallsLeft' = ccallsLeft - 1
    /\ redis_client' = EnsureClient.client
    /\ canswers' = [i \in DOMAIN RedisQuestions |-> EmptyStr]
    /\ cacheFailed' = (backend = "down")
    /\ LET r == RedisGet(DocKey(Url)) IN
        cphase' = CASE r.kind = "raise" -> "failed"
                    [] r.kind = "none" -> "doc_set"
                    [] OTHER -> "qa_get"
    /\ cq' = 1
    /\ UNCHANGED <<restOfRedis, backend, redis_store>>

\* process_document_from_url succeeded; cache_service.set(cache_key, document_data, ttl=7200),
\* then the document is indexed and the questions are processed
DocCacheSet ==
    /\ cphase = "doc_set"
    /\ redis_client' = EnsureClient.client
    /\ cacheFailed' = (cacheFailed \/ backend = "down")
    /\ LET r == RedisSet(DocKey(Url), Document(Url)) IN
        IF r.kind = "raise"
        THEN cphase' = "failed" /\ UNCHANGED redis_store
        ELSE cphase' = "qa_get" /\ redis_store' = r.store
    /\ UNCHANGED <<restOfRedis, backend, cq, canswers, ccallsLeft>>

\* the request goes on with the next question, or returns its answers
NextQuestion(q) == IF q < Len(RedisQuestions) THEN "qa_get" ELSE "returned"

\* _process_single_question: cache_service.get(cache_key) inside the try block
QaCacheGet ==
    /\ cphase = "qa_get"
    /\ redis_client' = EnsureClient.client
    /\ cacheFailed' = (cacheFailed \/ backend = "down")
    /\ LET r == RedisGet(QaKey(Document(Url).document_id, RedisQuestions[cq])) IN
        CASE r.kind = "raise" ->
                /\ canswers' = [canswers EXCEPT ![cq] = ApologyMsg]
                /\ cphase' = NextQuestion(cq)
                /\ cq' = Min(cq + 1, Len(RedisQuestions))
          [] r.kind = "value" /\ r.value # EmptyStr ->
                /\ canswers' = [canswers EXCEPT ![cq] = r.value]
                /\ cphase' = NextQuestion(cq)
                /\ cq' = Min(cq + 1, Len(RedisQuestions))
          [] OTHER ->
                /\ cphase' = "qa_set"
                /\ UNCHANGED <<canswers, cq>>
    /\ UNCHANGED <<restOfRedis, backend, redis_store, ccallsLeft>>

\* _process_single_question: the answer was generated;
\* cache_service.set(cache_key, final_answer, ttl=3600) inside the try block
QaCacheSet(raw) ==
    /\ cphase = "qa_set"
    /\ redis_client' = EnsureClient.client
    /\ cacheFailed' = (cacheFailed \/ backend = "down")
    /\ LET final == FinalAnswer(raw)
           r == RedisSet(QaKey(Document(Url).document_id, RedisQuestions[cq]), final) IN
        IF r.kind = "raise"
        THEN /\ canswers' = [canswers EXCEPT ![cq] = ApologyMsg]
             /\ UNCHANGED redis_store
        ELSE /\ canswers' = [canswers EXCEPT ![cq] = final]
             /\ redis_store' = r.store
    /\ cphase' = NextQuestion(cq)
    /\ cq' = Min(cq + 1, Len(RedisQuestions))
    /\ UNCHANGED <<restOfRedis, backend, ccallsLeft>>

\* the caller has the answers or the QueryProcessingError
RedisReturn ==
    /\ cphase \in {"returned", "failed"}
    /\ cphase' = "idle"
    /\ cacheFailed' = FALSE
    /\ UNCHANGED <<restOfRedis, redis_client, backend, redis_store, cq, canswers,
                   ccallsLeft>>

\* the Redis server goes down or comes back
BackendChanges ==
    /\ backend' = IF backend = "up" THEN "down" ELSE "up"
    /\ UNCHANGED <<restOfRedis, redis_client, redis_store, cphase, cq, canswers,
                   ccallsLeft, cacheFailed>>

\* CacheService.__init__, no request running
InitRedis ==
    /\ redis_client = "None"
    /\ backend = "up"
    /\ redis_store = <<>>
    /\ cphase = "idle"
    /\ cq = 1
    /\ canswers = [i \in DOMAIN RedisQuestions |-> EmptyStr]
    /\ ccallsLeft = 0
    /\ cacheFailed = FALSE

(* QueryProcessor._get_comprehensive_chunks *)

\* search_passes: threshold (x100), k, boost (x10)
PassThreshold == <<30, 40>>
PassK == <<6, 4>>
PassBoostRising == <<10, 12>>
PassBoost == <<10, 8>>
NumPasses == Len(PassBoost)

\* adjusted_k = max(3, search_params['k'] - (i // 3))
AdjustedK(p, i) == Max(3, PassK[p + 1] - (i \div 3))

\* min(search_params['threshold'] + (i * 0.02), 0.7), x100
AdjustedThreshold(p, i) == Min(PassThreshold[p + 1] + 2 * i, 70)

\* chunk['score'] * (search_params['boost'] * (1.0 - (i * 0.02))), x100000
Boosted(raw, p, i) == raw * PassBoost[p + 1] * (100 - 2 * i)

\* The similarities of the chunks of the index to one query (chunk_id = position - 1)
ScoreProfiles ==
    { <<0, 0, 0, 0, 0, 0, 0>>, <<35, 90, 0, 0, 0, 0, 0>>, <<90, 45, 0, 0, 0, 0, 0>>,
      <<45, 0, 0, 0, 0, 0, 0>>, <<90, 85, 80, 75, 70, 65, 60>> }

ChunkIds(profile) == 0..(Len(profile) - 1)

\* EmbeddingEngine.search: the k most similar chunks, most similar first, of
\* which those with score >= threshold are returned
SearchHits(profile, k, threshold) ==
    LET n == Len(profile)
        Rank(c) == 1 + Cardinality({d \in 1..n :
                        profile[d] > profile[c] \/ (profile[d] = profile[c] /\ d < c)})
        ranked == [r \in 1..n |-> CHOOSE c \in 1..n : Rank(c) = r]
        hits == [r \in 1..Min(k, n) |->
                    [chunk_id |-> ranked[r] - 1, score |-> profile[ranked[r]]]]
    IN SelectSeq(hits, LAMBDA h : h.score >= threshold)

Position(all, chunk_id) ==
    IF \E k \in 1..Len(all) : all[k].chunk_id = chunk_id
    THEN CHOOSE k \in 1..Len(all) : all[k].chunk_id = chunk_id
    ELSE 0

\* if chunk_id not in all_chunks or boosted_score > all_chunks[chunk_id]['score']
MergeHitLatest(all, hit, p, i) ==
    LET entry == [chunk_id |-> hit.chunk_id, score |-> Boosted(hit.score, p, i),
                  search_pass |-> p, matched_query |-> i]
        k == Position(all, hit.chunk_id)
    IN IF k = 0 THEN Append(all, entry) ELSE [all EXCEPT ![k] = entry]

MergeHit(all, hit, p, i) ==
    LET entry == [chunk_id |-> hit.chunk_id, score |-> Boosted(hit.score, p, i),
                  search_pass |-> p, matched_query |-> i]
        k == Position(all, hit.chunk_id)
    IN IF k = 0 THEN Append(all, entry)
       ELSE IF entry.score > all[k].score THEN [all EXCEPT ![k] = entry]
       ELSE all

RECURSIVE MergeSearch(_, _, _, _)
\* for chunk in chunks: ...
MergeSearch(all, hits, p, i) ==
    IF hits = <<>> THEN all
    ELSE MergeSearch(MergeHit(all, Head(hits), p, i), Tail(hits), p, i)

\* sorted(all_chunks.values(), key=score, reverse=True): stable
SortedByScore(all) ==
    LET n == Len(all)
        Rank(k) == 1 + Cardinality({j \in 1..n :
                        all[j].score > all[k].score \/ (all[j].score = all[k].score /\ j < k)})
    IN [r \in 1..n |-> all[CHOOSE k \in 1..n : Rank(k) = r]]

\* result = sorted_chunks[:15]
ResultLimit == 15

\* the loop goes on with the next variation, the next pass, or ends
Advance ==
    IF qi + 1 < NumVariants
    THEN qi' = qi + 1 /\ UNCHANGED <<pass_idx, rphase>>
    ELSE IF pass_idx + 1 < NumPasses
         THEN qi' = 0 /\ pass_idx' = pass_idx + 1 /\ UNCHANGED rphase
         ELSE rphase' = "sorting" /\ UNCHANGED <<qi, pass_idx>>

\* one iteration: the search returned its hits, which are merged
SearchReturns ==
    /\ rphase = "searching"
    /\ LET hits == SearchHits(scores[qi + 1], AdjustedK(pass_idx, qi),
                              AdjustedThreshold(pass_idx, qi)) IN
        /\ all_chunks' = MergeSearch(all_chunks, hits, pass_idx, qi)
        /\ hitsLog' = Append(hitsLog, [pass |-> pass_idx, i |-> qi, hits |-> hits])
    /\ Advance
    /\ UNCHANGED <<restOfRetr, scores, failedAt, relevant_chunks>>

SearchRaisesAborts ==
    /\ rphase = "searching"
    /\ failedAt' = failedAt \cup {<<pass_idx, qi>>}
    /\ rphase' = "done"
    /\ relevant_chunks' = <<>>
    /\ UNCHANGED <<restOfRetr, scores, pass_idx, qi, all_chunks, hitsLog>>

\* one iteration: the search raised; except Exception: continue
SearchRaises ==
    /\ rphase = "searching"
    /\ failedAt' = failedAt \cup {<<pass_idx, qi>>}
    /\ Advance
    /\ UNCHANGED <<restOfRetr, scores, all_chunks, hitsLog, relevant_chunks>>

\* after the loops: sort and cut
SortAndReturn ==
    /\ rphase = "sorting"
    /\ relevant_chunks' = SubSeq(SortedByScore(all_chunks), 1,
                                 Min(ResultLimit, Len(all_chunks)))
    /\ rphase' = "done"
    /\ UNCHANGED <<restOfRetr, scores, pass_idx, qi, all_chunks, hitsLog, failedAt>>

\* no retrieval running
InitRetr ==
    /\ scores = <<>>
    /\ pass_idx = 0
    /\ qi = 0
    /\ all_chunks = <<>>
    /\ hitsLog = <<>>
    /\ failedAt = {}
    /\ rphase = "done"
    /\ relevant_chunks = <<>>

(* QueryProcessor._select_best_chunks and LLMClient._prepare_enhanced_context *)

QueryTypes == {"grace_period", "waiting_period", "coverage_details", "exclusions",
               "numerical_limits", "definitions", "uin_regulatory", "air_ambulance",
               "maternity_wellbaby", "table_benefits", "general"}

\* _get_chunk_limit: complex_types
ComplexTypes == {"exclusions", "table_benefits", "coverage_details",
                 "maternity_wellbaby"}

\* _get_chunk_limit
ChunkLimit(qt) == IF qt \in ComplexTypes THEN 8 ELSE 6

\* sorted_chunks[:5] of _select_best_chunks
SelectLimit == 5

\* 0.6 * vector_score + 0.3 * match.confidence + 0.1 * pass_bonus, x1000 for
\* scores and confidences in hundredths (pass_bonus = 0.1 in pass 0)
Combined(vector_score, confidence, search_pass) ==
    6 * vector_score + 3 * confidence + (IF search_pass = 0 THEN 10 ELSE 0)

\* 'combined_score': chunk['score'] of a chunk as first scored, x1000
Uncombined(vector_score) == 10 * vector_score

\* for chunk in vector_chunks: chunk_scores[chunk_id] = {...}
InitialScores(chunks) ==
    [k \in 1..Len(chunks) |->
        [chunk_index |-> chunks[k].chunk_index,
         vector_score |-> chunks[k].score,
         clause_score |-> 0,
         combined_score |-> Uncombined(chunks[k].score),
         search_pass |-> chunks[k].search_pass]]

RECURSIVE AddClauseScores(_, _)
\* for match in clause_matches: if chunk_id in chunk_scores: ...
AddClauseScores(cs, matches) ==
    IF matches = <<>> THEN cs
    ELSE LET m == Head(matches)
             hit == {k \in 1..Len(cs) : cs[k].chunk_index = m.chunk_index}
         IN AddClauseScores(
                [k \in 1..Len(cs) |->
                    IF k \in hit
                    THEN [cs[k] EXCEPT
                            !.clause_score = m.confidence,
                            !.combined_score =
                                Combined(cs[k].vector_score, m.confidence, cs[k].search_pass)]
                    ELSE cs[k]],
                Tail(matches))

\* sorted(..., key=combined_score, reverse=True): stable
SortedByCombined(cs) ==
    LET n == Len(cs)
        Rank(k) == 1 + Cardinality({j \in 1..n :
                        cs[j].combined_score > cs[k].combined_score
                        \/ (cs[j].combined_score = cs[k].combined_score /\ j < k)})
    IN [r \in 1..n |-> cs[CHOOSE k \in 1..n : Rank(k) = r]]

\* sorted(relevant_chunks, key=score + type_relevance, reverse=True): stable
\* (no chunk text holds a keyword of the query type: type_relevance = 0)
SortedByRelevance(cs) ==
    LET n == Len(cs)
        Rank(k) == 1 + Cardinality({j \in 1..n :
                        cs[j].vector_score > cs[k].vector_score
                        \/ (cs[j].vector_score = cs[k].vector_score /\ j < k)})
    IN [r \in 1..n |-> cs[CHOOSE k \in 1..n : Rank(k) = r]]

Prefix(seq, n) == SubSeq(seq, 1, Min(n, Len(seq)))

\* _select_best_chunks
SelectBestChunks ==
    /\ fphase = "select"
    /\ LET cs == AddClauseScores(InitialScores(vector_chunks), clause_matches) IN
        /\ chunk_scores' = cs
        /\ context_chunks' = Prefix(SortedByCombined(cs), SelectLimit)
    /\ fphase' = "prepare"
    /\ UNCHANGED <<restOfFusion, vector_chunks, clause_matches, query_type, llm_chunks>>

\* answer_question_with_context -> _prepare_enhanced_context (every chunk has text)
PrepareContext ==
    /\ fphase = "prepare"
    /\ llm_chunks' = Prefix(SortedByRelevance(context_chunks), ChunkLimit(query_type))
    /\ fphase' = "done"
    /\ UNCHANGED <<restOfFusion, vector_chunks, clause_matches, query_type,
                   chunk_scores, context_chunks>>

\* no selection running
InitFusionIdle ==
    /\ vector_chunks = <<>>
    /\ clause_matches = <<>>
    /\ query_type = "general"
    /\ chunk_scores = <<>>
    /\ context_chunks = <<>>
    /\ llm_chunks = <<>>
    /\ fphase = "done"

\* two candidates with every combination of score, pass and clause match
FewCandidates ==
    {<<[chunk_index |-> 0, score |-> s[1], search_pass |-> p[1]],
       [chunk_index |-> 1, score |-> s[2], search_pass |-> p[2]]>> :
        s \in {<<70, 60>>, <<70, 50>>, <<60, 60>>}, p \in {0, 1} \X {0, 1}}

MatchLists ==
    {<<>>} \cup {<<[chunk_index |-> c, confidence |-> f]>> : c \in {0, 1}, f \in {30, 90}}
           \cup {<<[chunk_index |-> 0, confidence |-> f], [chunk_index |-> 1, confidence |-> g]>> :
                    f \in {30, 90}, g \in {30, 90}}

\* n candidates of the first pass, by descending score
ManyCandidates(n) ==
    [k \in 1..n |-> [chunk_index |-> k - 1, score |-> 95 - 5 * k, search_pass |-> 0]]

(* LLMClient._classify_query_type *)

\* the keys of self.query_patterns, in the order the dict literal lists them
PatternOrder == <<"grace_period", "waiting_period", "coverage_details", "exclusions",
                  "numerical_limits", "definitions", "uin_regulatory", "air_ambulance",
                  "maternity_wellbaby", "table_benefits">>

\* phrases a question is made of
Phrases == {"policy", "grace period", "waiting period", "coverage table",
            "exclusion period", "limitation", "limit", "what is", "uin",
            "helicopter", "maternity"}

\* the types one of whose patterns re.findall finds (once) in the phrase
PhraseMatches(ph) ==
    CASE ph = "grace period" -> {"grace_period"}                      \* grace\s*period
      [] ph = "waiting period" -> {"waiting_period"}                  \* waiting\s*period
      [] ph = "coverage table" -> {"coverage_details", "table_benefits"}  \* coverage, coverage\s*table
      [] ph = "exclusion period" -> {"waiting_period", "exclusions"}  \* exclusion\s*period, exclusion
      [] ph = "limitation" -> {"exclusions", "numerical_limits"}      \* limitation, limit
      [] ph = "limit" -> {"numerical_limits"}                         \* limit
      [] ph = "what is" -> {"definitions"}                            \* what\s*is
      [] ph = "uin" -> {"uin_regulatory"}                             \* uin
      [] ph = "helicopter" -> {"air_ambulance"}                       \* helicopter
      [] ph = "maternity" -> {"maternity_wellbaby"}                   \* maternity
      [] OTHER -> {}

\* score: the sum over the type's patterns of len(re.findall(pattern, question_lower))
TypeScore(question, qt) ==
    Cardinality({k \in 1..Len(question) : qt \in PhraseMatches(question[k])})

\* the positions in PatternOrder of the entries of type_scores (score > 0)
Scored(question) ==
    {i \in 1..Len(PatternOrder) : TypeScore(question, PatternOrder[i]) > 0}

\* the positions holding the highest score
Highest(question) ==
    {i \in Scored(question) :
        \A j \in Scored(question) :
            TypeScore(question, PatternOrder[j]) <= TypeScore(question, PatternOrder[i])}

LastMax(S) == CHOOSE i \in S : \A j \in S : j <= i

\* max(items, key=...): the first maximal item in iteration order
FirstMax(S) == CHOOSE i \in S : \A j \in S : i <= j

ClassifyQueryType(question) ==
    IF Scored(question) # {}
    THEN PatternOrder[FirstMax(Highest(question))]
    ELSE "general"

Classify ==
    /\ classified = "none"
    /\ class_question # <<>>
    /\ classified' = ClassifyQueryType(class_question)
    /\ UNCHANGED <<restOfClass, class_question>>

\* no classification running
InitClassIdle ==
    /\ class_question = <<>>
    /\ classified = "none"

(* QueryProcessor._preprocess_query and _prioritize_variations_enhanced.
   A string is a sequence of the characters "a", "A", "1" and " ". *)

\* str.lower()
Lower(str) == [k \in 1..Len(str) |-> IF str[k] = "A" THEN "a" ELSE str[k]]

\* str.strip()
Strip(str) ==
    LET inked == {k \in 1..Len(str) : str[k] # " "}
    IN IF inked = {} THEN <<>>
       ELSE SubSeq(str, CHOOSE k \in inked : \A j \in inked : k <= j,
                        CHOOSE k \in inked : \A j \in inked : j <= k)

\* len(str.split())
WordCount(str) ==
    Cardinality({k \in 1..Len(str) : str[k] # " " /\ (k = 1 \/ str[k - 1] = " ")})

\* n times the character c
Rep(c, n) == [k \in 1..n |-> c]

\* "a a ... a", n words
Words(n) == [k \in 1..(2 * n - 1) |-> IF k % 2 = 1 THEN "a" ELSE " "]

\* len(variant.split()) <= 20
MaxWords == 20

\* prioritized[:20]
MaxVariants == 20

VariantStripped(variant) == Strip(variant)

\* variant_clean = variant.strip().lower()
VariantClean(variant) == Lower(Strip(variant))

RECURSIVE Unique(_, _, _)
\* step 8: remove duplicates and filter
Unique(query_variations, seen, unique_variations) ==
    IF query_variations = <<>> THEN unique_variations
    ELSE LET variant == Head(query_variations)
             variant_clean == VariantClean(variant)
         IN IF /\ variant_clean # <<>>
               /\ variant_clean \notin seen
               /\ Len(variant_clean) > 1
               /\ WordCount(variant) <= MaxWords
            THEN Unique(Tail(query_variations), seen \cup {variant_clean},
                        Append(unique_variations, Strip(variant)))
            ELSE Unique(Tail(query_variations), seen, unique_variations)

\* the score of _prioritize_variations_enhanced (no string here holds one of the
\* insurance terms, a code, a distance or a period)
VariantScore(variant, original) ==
    (IF Lower(variant) = Lower(original) THEN 100 ELSE 0)
    + (IF WordCount(variant) >= 5 THEN 60
       ELSE IF WordCount(variant) >= 3 THEN 40
       ELSE IF WordCount(variant) >= 2 THEN 20 ELSE 0)
    + (IF \E k \in 1..Len(variant) : variant[k] = "1" THEN 25 ELSE 0)

\* scored_variations.sort(key=score, reverse=True): stable
PrioritizeVariationsEnhanced(variations, original) ==
    LET n == Len(variations)
        Sc(k) == VariantScore(variations[k], original)
        Rank(k) == 1 + Cardinality({j \in 1..n :
                        Sc(j) > Sc(k) \/ (Sc(j) = Sc(k) /\ j < k)})
    IN [r \in 1..n |-> variations[CHOOSE k \in 1..n : Rank(k) = r]]

\* _preprocess_query
PreprocessQuery ==
    /\ ephase = "expand"
    /\ LET query_variations == <<Strip(exp_question)>> \o expansions
           unique_variations == Unique(query_variations, {}, <<>>)
       IN prioritized' =
            Prefix(PrioritizeVariationsEnhanced(unique_variations, exp_question), MaxVariants)
    /\ ephase' = "done"
    /\ UNCHANGED <<restOfExp, exp_question, expansions>>

\* no expansion running
InitExpIdle ==
    /\ exp_question = <<>>
    /\ expansions = <<>>
    /\ prioritized = <<>>
    /\ ephase = "done"

\* accepted questions: trimmed, 3 characters or more
ExpQuestions ==
    {<<"a", "a", "a">>, <<"A", "a", "a">>, <<"a", " ", "1">>, <<"A", " ", "a">>}
    \cup {Words(n) : n \in {2, 3, 5, MaxQuestionWords - 1, MaxQuestionWords}}

\* n one-word variants "aa", "aaa", ...
Generated(n) == [k \in 1..n |-> Rep("a", k + 1)]

\* variants of other shapes: capitalised, padded, blank, too short, too long, scored
OtherVariants ==
    {<<>>,
     <<<<"A", "a">>, <<" ", "a", "a", " ">>, <<"A", " ", "A">>>>,
     <<<<>>, <<" ">>, <<"a">>>>,
     <<Words(MaxQuestionWords)>>,
     <<<<"1", " ", "a">>, Words(5), Words(3)>>}

ExpansionLists ==
    {Generated(n) \o other : n \in {0, 2, MaxExpansions}, other \in OtherVariants}

(* ClauseMatcher._calculate_enhanced_confidence.  Scores are in thousandths,
   clause weights in tenths, the confidence in hundred-thousandths. *)

\* self.clause_weights, with the default of .get(clause_type, 1.0)
ClauseWeight(clause_type) ==
    CASE clause_type = "air_ambulance" -> 15
      [] clause_type = "well_mother" -> 14
      [] clause_type = "well_baby" -> 14
      [] OTHER -> 10

\* the clause types of context_indicators
WithIndicators == {"air_ambulance", "well_mother", "well_baby", "regulatory",
                   "waiting_period", "grace_period", "maternity"}

RECURSIVE SumOver(_, _)
SumOver(f, S) ==
    IF S = {} THEN 0
    ELSE LET x == CHOOSE y \in S : TRUE IN f[x] + SumOver(f, S \ {x})

PatternBoostUncapped(total_boost) == total_boost

\* 'boost': min(0.5, total_boost)
PatternBoostOf(total_boost) == Min(500, total_boost)

\* _analyze_pattern_matches: 'boost'
AnalyzePatternMatches(clause_types, pattern_count) ==
    LET clause_boost ==
            [k \in 1..Len(clause_types) |->
                IF clause_types[k] = "general" \/ pattern_count = 0 THEN 0
                ELSE Min(300, pattern_count * 10 * ClauseWeight(clause_types[k]))]
    IN PatternBoostOf(SumOver(clause_boost, 1..Len(clause_types)))

\* _calculate_keyword_density
CalculateKeywordDensity(query_words, overlap, phrase, phrase_matches) ==
    IF query_words = 0 THEN 0
    ELSE LET overlap_ratio == (overlap * 1000) \div query_words
             phrase_boost == IF phrase = "exact" THEN 300
                             ELSE Min(200, phrase_matches * 100)
         IN Min(1000, overlap_ratio + phrase_boost)

\* _calculate_context_relevance
CalculateContextRelevance(clause_types, indicator_count) ==
    LET type_relevance ==
            [k \in 1..Len(clause_types) |->
                IF clause_types[k] \in WithIndicators /\ indicator_count > 0
                THEN Min(300, indicator_count * 10 * ClauseWeight(clause_types[k]))
                ELSE 0]
    IN Min(1000, SumOver(type_relevance, 1..Len(clause_types)))

\* _calculate_regulatory_score
CalculateRegulatoryScore(regulatory_count) == Min(1000, regulatory_count * 100)

\* _calculate_length_boost
CalculateLengthBoost(word_count) ==
    IF word_count < 15 THEN -100
    ELSE IF word_count <= 30 THEN 0
    ELSE IF word_count <= 100 THEN 100
    ELSE IF word_count <= 200 THEN 150
    ELSE 100

\* _calculate_insurance_boost
CalculateInsuranceBoost(high_matches, medium_matches) ==
    Min(300, high_matches * 50 + medium_matches * 20)

\* _calculate_enhanced_confidence
CalculateEnhancedConfidence ==
    /\ mphase = "match"
    /\ LET in == match_input
           pattern_boost == AnalyzePatternMatches(in.clause_types, in.pattern_count)
           keyword_density == CalculateKeywordDensity(in.query_words, in.overlap,
                                                      in.phrase, in.phrase_matches)
           context_relevance == CalculateContextRelevance(in.clause_types, in.indicator_count)
           regulatory_score == CalculateRegulatoryScore(in.regulatory_count)
           length_boost == CalculateLengthBoost(in.word_count)
           insurance_boost == CalculateInsuranceBoost(in.high_matches, in.medium_matches)
       IN confidence_data' =
            <<[confidence |-> Min(100000, in.similarity * 40 + pattern_boost * 25
                                          + keyword_density * 15 + context_relevance * 10
                                          + length_boost * 5 + insurance_boost * 5),
               pattern_boost |-> pattern_boost,
               keyword_density |-> keyword_density,
               context_relevance |-> context_relevance,
               regulatory_score |-> regulatory_score,
               length_boost |-> length_boost,
               insurance_boost |-> insurance_boost]>>
    /\ mphase' = "done"
    /\ UNCHANGED <<restOfMatch, match_input>>

\* no clause matching running
InitMatchIdle ==
    /\ match_input = <<>>
    /\ confidence_data = <<>>
    /\ mphase = "done"

\* what _calculate_keyword_density finds: the query's words, those in the text,
\* whether the whole query occurs in the text, and the two-word phrases that do
KeywordCases ==
    {[query_words |-> 0, overlap |-> 0, phrase |-> "none", phrase_matches |-> 0],
     [query_words |-> 2, overlap |-> 1, phrase |-> "none", phrase_matches |-> 0],
     [query_words |-> 2, overlap |-> 2, phrase |-> "exact", phrase_matches |-> 0],
     [query_words |-> 4, overlap |-> 3, phrase |-> "partial", phrase_matches |-> 3]}

\* the chunks passing 'similarity >= threshold' with what the helpers count in them
MatchInputs ==
    {[similarity |-> s, clause_types |-> ct, pattern_count |-> pc0,
      query_words |-> kw.query_words, overlap |-> kw.overlap, phrase |-> kw.phrase,
      phrase_matches |-> kw.phrase_matches,
      indicator_count |-> ic, regulatory_count |-> rc, word_count |-> wc,
      high_matches |-> hm, medium_matches |-> mm] :
        s \in {300, 1000},
        ct \in {<<"general">>, <<"coverage">>, <<"air_ambulance", "well_mother", "well_baby">>},
        pc0 \in {0, 1, MaxMatches},
        kw \in KeywordCases,
        ic \in {0, 5},
        rc \in {0, 3, 12},
        wc \in {10, 15, 30, 100, 200, 201},
        hm \in {0, 15},
        mm \in {0, 12}}

(* A request to POST /hackrx/run: RateLimitMiddleware, AuthMiddleware, the
   dependencies and body validation of the route, process_hackrx_query.
   main.py adds RateLimitMiddleware last, which makes it the outermost. *)

\* settings.BEARER_TOKEN
BearerToken == "good"

\* the Authorization header of a request
AuthHeaders ==
    {[header |-> "missing", parts |-> 0, scheme |-> "", token |-> ""],
     [header |-> "present", parts |-> 1, scheme |-> "bearer", token |-> ""],
     [header |-> "present", parts |-> 2, scheme |-> "basic", token |-> "good"],
     [header |-> "present", parts |-> 2, scheme |-> "bearer", token |-> "bad"],
     [header |-> "present", parts |-> 2, scheme |-> "bearer", token |-> "good"]}

\* Field(max_items=20) and 'len(request.questions) > 20'
MaxItems == 20

\* question lists, each question given by its length after strip()
QuestionListsApi ==
    {<<>>, <<3>>, Rep(3, MaxItems), Rep(3, MaxItems + 1)}
    \cup {<<n>> : n \in {0, 2, 500, 501}}
    \cup {<<3, n>> : n \in {0, 2, 500, 501}}

TokenMatchesAny(token) == TRUE

\* not (token != settings.BEARER_TOKEN)
TokenMatches(token) == token = BearerToken

\* HackRXRequest: the field constraints and both validators
ValidRequest(request) ==
    /\ request.documents = "url"
    /\ Len(request.questions) >= 1
    /\ Len(request.questions) <= MaxItems
    /\ \A k \in 1..Len(request.questions) :
        request.questions[k] >= 3 /\ request.questions[k] <= 500

\* the client sends a request
Arrive ==
    /\ api_pc \in {"idle", "done"}
    /\ api_served < MaxApiRequests
    /\ \E auth \in AuthHeaders, documents \in {"url", "not a url"},
          qs \in QuestionListsApi :
        api_request' = [auth |-> auth, documents |-> documents, questions |-> qs]
    /\ api_pc' = "rate_limit"
    /\ api_status' = 0
    /\ reached' = FALSE
    /\ UNCHANGED <<restOfApi, api_window, api_served>>

\* RateLimitMiddleware.dispatch: some of the recorded requests have left the window
RateLimitDispatch ==
    /\ api_pc = "rate_limit"
    /\ \E expired \in 0..api_window :
        LET in_window == api_window - expired IN
        IF in_window >= RequestsPerMinute
        THEN /\ api_status' = 429
             /\ api_pc' = "done"
             /\ api_served' = api_served + 1
             /\ api_window' = in_window
        ELSE /\ api_window' = in_window + 1
             /\ api_pc' = "auth"
             /\ UNCHANGED <<api_status, api_served>>
    /\ UNCHANGED <<restOfApi, api_request, reached>>

\* AuthMiddleware.dispatch, up to call_next
AuthDispatch ==
    /\ api_pc = "auth"
    /\ LET auth == api_request.auth IN
        IF \/ auth.header = "missing"
           \/ auth.parts # 2
           \/ auth.scheme # "bearer"
           \/ ~TokenMatches(auth.token)
        THEN /\ api_status' = 401
             /\ api_pc' = "done"
             /\ api_served' = api_served + 1
        ELSE /\ api_pc' = "deps"
             /\ UNCHANGED <<api_status, api_served>>
    /\ UNCHANGED <<restOfApi, api_request, api_window, reached>>

\* Depends(verify_bearer_token) on HTTPBearer()
VerifyBearerToken ==
    /\ api_pc = "deps"
    /\ LET auth == api_request.auth IN
        IF auth.header = "missing" \/ auth.scheme # "bearer"
        THEN /\ api_status' = 403
             /\ api_pc' = "done"
             /\ api_served' = api_served + 1
        ELSE IF ~TokenMatches(auth.token)
        THEN /\ api_status' = 401
             /\ api_pc' = "done"
             /\ api_served' = api_served + 1
        ELSE /\ api_pc' = "body"
             /\ UNCHANGED <<api_status, api_served>>
    /\ UNCHANGED <<restOfApi, api_request, api_window, reached>>

\* the body is parsed into HackRXRequest; no handler for RequestValidationError
\* is installed, so a failure is answered 422
ValidateBody ==
    /\ api_pc = "body"
    /\ IF ~ValidRequest(api_request)
       THEN /\ api_status' = 422
            /\ api_pc' = "done"
            /\ api_served' = api_served + 1
       ELSE /\ api_pc' = "endpoint"
            /\ UNCHANGED <<api_status, api_served>>
    /\ UNCHANGED <<restOfApi, api_request, api_window, reached>>

\* what query_service.process_document_queries does, and the status for it
ServiceOutcomes ==
    {<<"ok", 200>>, <<"DocumentProcessingError", 422>>,
     <<"EmbeddingGenerationError", 500>>, <<"LLMProcessingError", 503>>,
     <<"TimeoutError", 408>>, <<"Exception", 500>>}

\* process_hackrx_query
ProcessHackrxQuery ==
    /\ api_pc = "endpoint"
    /\ IF \/ api_request.documents = ""
          \/ api_request.questions = <<>>
          \/ Len(api_request.questions) > MaxItems
       THEN /\ api_status' = 400
            /\ UNCHANGED reached
       ELSE /\ reached' = TRUE
            /\ \E outcome \in ServiceOutcomes : api_status' = outcome[2]
    /\ api_pc' = "done"
    /\ api_served' = api_served + 1
    /\ UNCHANGED <<restOfApi, api_request, api_window>>

\* no request
InitApiIdle ==
    /\ api_pc = "idle"
    /\ api_request = <<>>
    /\ api_status = 0
    /\ api_window = 0
    /\ api_served = MaxApiRequests
    /\ reached = FALSE

(* The shared EmbeddingEngine: add_documents, clear_document, search, and one
   question's retrieval (_get_comprehensive_chunks) reading it while other
   requests change it.  A vector is named by the chunk whose text it embeds. *)

IndexDocs == {"d1", "d2", "d3"}

\* len(chunks) of each document
DocSize(document_id) == IF document_id = "d2" THEN 1 ELSE 2

\* self.index.ntotal
Ntotal == Len(faiss_index)

\* the dict chunk_metadata holds the ids 0..n-1 at positions 1..n
MetaIds == 0..(Len(chunk_metadata) - 1)

\* EmbeddingEngine.add_documents
IndexAdd ==
    /\ ix_op[3] < MaxIndexOps
    /\ \E document_id \in IndexDocs :
        /\ Ntotal + DocSize(document_id) <= MaxIndexSize
        /\ LET start_id == Ntotal IN
            /\ faiss_index' = faiss_index \o
                    [i \in 1..DocSize(document_id) |-> <<document_id, i - 1>>]
            /\ chunk_metadata' = chunk_metadata \o
                    [i \in 1..DocSize(document_id) |->
                        [document_id |-> document_id, chunk_index |-> i - 1]]
            /\ ix_op' = <<"add", document_id, ix_op[3] + 1>>
    /\ ix_before' = [index |-> faiss_index, metadata |-> chunk_metadata]
    /\ UNCHANGED <<restOfIndex, reader_all, reader_seen, reader_left, reader_result>>

ChunksToRemoveFirst(metadata, document_id) ==
    LET all == {c \in 0..(Len(metadata) - 1) : metadata[c + 1].document_id = document_id}
    IN {c \in all : \A d \in all : c <= d}

\* chunks_to_remove
ChunksToRemove(metadata, document_id) ==
    {c \in 0..(Len(metadata) - 1) : metadata[c + 1].document_id = document_id}

RECURSIVE Rebuild(_, _, _, _, _)
\* for chunk_id in range(self.index.ntotal): keep what is not removed
Rebuild(chunk_id, chunks_to_remove, remaining_embeddings, new_metadata, old) ==
    IF chunk_id >= Len(old.index)
    THEN [index |-> remaining_embeddings, metadata |-> new_metadata]
    ELSE IF chunk_id \notin chunks_to_remove
    THEN Rebuild(chunk_id + 1, chunks_to_remove,
                 Append(remaining_embeddings, old.index[chunk_id + 1]),
                 Append(new_metadata, old.metadata[chunk_id + 1]), old)
    ELSE Rebuild(chunk_id + 1, chunks_to_remove, remaining_embeddings, new_metadata, old)

\* EmbeddingEngine.clear_document
ClearDocument ==
    /\ ix_op[3] < MaxIndexOps
    /\ \E document_id \in IndexDocs :
        LET chunks_to_remove == ChunksToRemove(chunk_metadata, document_id)
            rebuilt == Rebuild(0, chunks_to_remove, <<>>, <<>>,
                               [index |-> faiss_index, metadata |-> chunk_metadata])
        IN /\ IF chunks_to_remove = {}
              THEN UNCHANGED <<faiss_index, chunk_metadata>>
              ELSE /\ faiss_index' = rebuilt.index
                   /\ chunk_metadata' = rebuilt.metadata
           /\ ix_op' = <<"clear", document_id, ix_op[3] + 1>>
    /\ ix_before' = [index |-> faiss_index, metadata |-> chunk_metadata]
    /\ UNCHANGED <<restOfIndex, reader_all, reader_seen, reader_left, reader_result>>

\* EmbeddingEngine.search: the formatted results for the ids FAISS returns
SearchResults(ids, score) ==
    {[chunk_id |-> c, score |-> score,
      document_id |-> chunk_metadata[c + 1].document_id,
      chunk_index |-> chunk_metadata[c + 1].chunk_index] : c \in ids}

\* for chunk in chunks: keep the chunk if it is new or scores higher
ReaderMerge(all, chunks) ==
    LET kept == {e \in all : ~\E h \in chunks :
                    h.chunk_id = e.chunk_id /\ h.score > e.score}
        taken == {h \in chunks : ~\E e \in kept : e.chunk_id = h.chunk_id}
    IN kept \cup taken

\* the document_id argument of _get_comprehensive_chunks
ReaderDocument == "d1"

\* one iteration of the search loop of _get_comprehensive_chunks: FAISS returns
\* at most SearchK of the ids of the index
ReaderSearch ==
    /\ reader_left > 0
    /\ \E ids \in SUBSET MetaIds, raw \in {50, 90} :
        /\ Cardinality(ids) <= SearchK
        /\ (Ntotal > 0 /\ Ntotal <= SearchK) => ids = MetaIds
        /\ LET chunks == SearchResults(ids, raw * reader_left) IN
            /\ reader_all' = ReaderMerge(reader_all, chunks)
            /\ reader_seen' = reader_seen \cup
                    {<<h.chunk_id, h.document_id, h.chunk_index>> : h \in chunks}
    /\ reader_left' = reader_left - 1
    /\ UNCHANGED <<restOfIndex, faiss_index, chunk_metadata, ix_op, ix_before, reader_result>>

\* after the loops: the chunks kept are returned
ReaderReturn ==
    /\ reader_left = 0
    /\ reader_result = <<>>
    /\ reader_result' = <<reader_all>>
    /\ UNCHANGED <<restOfIndex, faiss_index, chunk_metadata, ix_op, ix_before,
                   reader_all, reader_seen, reader_left>>

\* the index is not used
InitIndexIdle ==
    /\ faiss_index = <<>>
    /\ chunk_metadata = <<>>
    /\ ix_op = <<"none", "", MaxIndexOps>>
    /\ ix_before = [index |-> <<>>, metadata |-> <<>>]
    /\ reader_all = {}
    /\ reader_seen = {}
    /\ reader_left = 0
    /\ reader_result = <<{}>>

(* InMemoryCache, the fallback cache: the dicts cache and ttl_data, and the
   clock its get and set read.  The dicts are functions whose domain is the
   set of keys they hold. *)

MemKeys == {"k1", "k2"}
MemValues == {"v1", "v2"}

\* the ttl argument of set; 0 stands for None, which `if ttl:` treats alike
MemTtls == {0, 1, MaxTtl}

\* InMemoryCache.get
MemGet(key) ==
    /\ IF key \notin DOMAIN mem_cache
         THEN /\ mem_result' = <<"get", key, "None">>
              /\ UNCHANGED <<mem_cache, ttl_data>>
         ELSE IF key \in DOMAIN ttl_data /\ mem_now > ttl_data[key]
                THEN /\ mem_cache' = CacheDrop(mem_cache, key)
                     /\ ttl_data' = CacheDrop(ttl_data, key)
                     /\ mem_result' = <<"get", key, "None">>
                ELSE /\ mem_result' = <<"get", key, mem_cache[key]>>
                     /\ UNCHANGED <<mem_cache, ttl_data>>
    /\ UNCHANGED <<restOfMem, mem_now, last_set>>

\* InMemoryCache.set
MemSet(key, value, ttl) ==
    /\ mem_cache' = CacheSet(mem_cache, key, value)
    /\ ttl_data' = IF ttl # 0 THEN CacheSet(ttl_data, key, mem_now + ttl) ELSE ttl_data
    /\ mem_result' = <<"set", key, "True">>
    /\ last_set' = CacheSet(last_set, key, [value |-> value, at |-> mem_now, ttl |-> ttl])
    /\ UNCHANGED <<restOfMem, mem_now>>

\* InMemoryCache.delete
MemDelete(key) ==
    /\ IF key \in DOMAIN mem_cache
         THEN /\ mem_cache' = CacheDrop(mem_cache, key)
              /\ ttl_data' = IF key \in DOMAIN ttl_data THEN CacheDrop(ttl_data, key)
                                                        ELSE ttl_data
              /\ mem_result' = <<"delete", key, "True">>
         ELSE /\ mem_result' = <<"delete", key, "False">>
              /\ UNCHANGED <<mem_cache, ttl_data>>
    /\ last_set' = CacheDrop(last_set, key)
    /\ UNCHANGED <<restOfMem, mem_now>>

\* time.time() moves on
MemTick ==
    /\ mem_now < MaxMemTime
    /\ mem_now' = mem_now + 1
    /\ UNCHANGED <<restOfMem, mem_cache, ttl_data, mem_result, last_set>>

\* InMemoryCache.__init__; the idle cache's clock has run out
InitMemIdle ==
    /\ mem_cache = <<>>
    /\ ttl_data = <<>>
    /\ mem_now = MaxMemTime
    /\ mem_result = <<"none">>
    /\ last_set = <<>>

InitCommon ==
    /\ phase = "idle"
    /\ document_data = Document(Url)
    /\ cache = <<>>
    /\ index = <<>>
    /\ sem = SemaphoreWidth
    /\ waiters = <<>>
    /\ pc = [i \in Tasks |-> "none"]
    /\ results = [i \in Tasks |-> NoResult]
    /\ out = <<>>
    /\ prevOut = <<>>
    /\ llmCalls = 0
    /\ expiredSince = FALSE
    /\ raised = {}
    /\ noChunks = {}

\* The lists of n questions; the two questions are interchangeable, so the
\* first one is "q1".  Repetitions are allowed (the request validator accepts them).
QuestionLists(n) == {qs \in [1..n -> Questions] : qs[1] = "q1"}

\* The caller makes one call with NumQuestions questions, or a first and a
\* second call with the same URL and the same RepeatQuestions questions.
Init ==
    /\ \/ questions \in QuestionLists(NumQuestions) /\ callsLeft = 1
       \/ questions \in QuestionLists(RepeatQuestions) /\ callsLeft = 2
    /\ InitCommon
    /\ InitClient
    /\ InitRedis
    /\ InitRetr
    /\ InitFusionIdle
    /\ InitClassIdle
    /\ InitExpIdle
    /\ InitMatchIdle
    /\ InitApiIdle
    /\ InitIndexIdle
    /\ InitMemIdle

Next ==
    \/ ProcessDocument
    \/ ProcessDocumentFails
    \/ EnsureIndexed
    \/ EnsureIndexedFails
    \/ \E i \in Tasks : TaskStart(i)
    \/ \E i \in Tasks : TaskResume(i)
    \/ \E i \in Tasks : RetrieveNothing(i)
    \/ \E i \in Tasks : RetrieveChunks(i)
    \/ \E i \in Tasks, raw \in RawTexts : GenerateOk(i, raw)
    \/ \E i \in Tasks : GenerateFails(i)
    \/ \E i \in Tasks : TaskRaises(i)
    \/ Gather
    \/ Return
    \/ \E key \in AllKeys : Expire(key)

Spec == Init /\ [][Next]_vars

\* The client alone: NumCallers question tasks each make one generate call
InitLLM ==
    /\ questions = <<"q1">>
    /\ callsLeft = 0
    /\ InitCommon
    /\ InitClient
    /\ InitRedis
    /\ InitRetr
    /\ InitFusionIdle
    /\ InitClassIdle
    /\ InitExpIdle
    /\ InitMatchIdle
    /\ InitApiIdle
    /\ InitIndexIdle
    /\ InitMemIdle

NextLLM ==
    \/ \E c \in Callers : Generate(c)
    \/ \E c \in Callers : RateWake(c)
    \/ \E c \in Callers, chars \in TotalChars, raw \in RawTexts : AttemptOk(c, chars, raw)
    \/ \E c \in Callers, kind \in {"safety", "transient"} : AttemptFails(c, kind)
    \/ \E c \in Callers : Retry(c)
    \/ \E d \in 1..MaxTime : Tick(d)
    \/ NewDay

SpecLLM == InitLLM /\ [][NextLLM]_vars

\* The processor behind a Redis-backed CacheService: RedisCalls requests
InitCache ==
    /\ questions = <<"q1">>
    /\ callsLeft = 0
    /\ InitCommon
    /\ InitClient
    /\ redis_client = "None"
    /\ backend \in {"up", "down"}
    /\ redis_store = <<>>
    /\ cphase = "idle"
    /\ cq = 1
    /\ canswers = [i \in DOMAIN RedisQuestions |-> EmptyStr]
    /\ ccallsLeft = RedisCalls
    /\ cacheFailed = FALSE
    /\ InitRetr
    /\ InitFusionIdle
    /\ InitClassIdle
    /\ InitExpIdle
    /\ InitMatchIdle
    /\ InitApiIdle
    /\ InitIndexIdle
    /\ InitMemIdle

NextCache ==
    \/ DocCacheGet
    \/ DocCacheSet
    \/ QaCacheGet
    \/ \E raw \in RawTexts : QaCacheSet(raw)
    \/ RedisReturn
    \/ BackendChanges

SpecCache == InitCache /\ [][NextCache]_vars

\* The retrieval of one question over NumVariants query variations
InitRetrieval ==
    /\ questions = <<"q1">>
    /\ callsLeft = 0
    /\ InitCommon
    /\ InitClient
    /\ InitRedis
    /\ scores \in [1..NumVariants -> ScoreProfiles]
    /\ pass_idx = 0
    /\ qi = 0
    /\ all_chunks = <<>>
    /\ hitsLog = <<>>
    /\ failedAt = {}
    /\ rphase = "searching"
    /\ relevant_chunks = <<>>
    /\ InitFusionIdle
    /\ InitClassIdle
    /\ InitExpIdle
    /\ InitMatchIdle
    /\ InitApiIdle
    /\ InitIndexIdle
    /\ InitMemIdle

NextRetrieval ==
    \/ SearchReturns
    \/ SearchRaises
    \/ SortAndReturn

SpecRetrieval == InitRetrieval /\ [][NextRetrieval]_vars

\* Selection and context preparation for one question
InitFusion ==
    /\ questions = <<"q1">>
    /\ callsLeft = 0
    /\ InitCommon
    /\ InitClient
    /\ InitRedis
    /\ InitRetr
    /\ \/ /\ vector_chunks \in FewCandidates
          /\ clause_matches \in MatchLists
          /\ query_type = "general"
       \/ /\ \E n \in 5..MaxCandidates : vector_chunks = ManyCandidates(n)
          /\ clause_matches = <<>>
          /\ query_type \in QueryTypes
    /\ chunk_scores = <<>>
    /\ context_chunks = <<>>
    /\ llm_chunks = <<>>
    /\ fphase = "select"
    /\ InitClassIdle
    /\ InitExpIdle
    /\ InitMatchIdle
    /\ InitApiIdle
    /\ InitIndexIdle
    /\ InitMemIdle

NextFusion ==
    \/ SelectBestChunks
    \/ PrepareContext

SpecFusion == InitFusion /\ [][NextFusion]_vars

\* Classification of one question
InitClassify ==
    /\ questions = <<"q1">>
    /\ callsLeft = 0
    /\ InitCommon
    /\ InitClient
    /\ InitRedis
    /\ InitRetr
    /\ InitFusionIdle
    /\ \E n \in 1..MaxPhrases : class_question \in [1..n -> Phrases]
    /\ classified = "none"
    /\ InitExpIdle
    /\ InitMatchIdle
    /\ InitApiIdle
    /\ InitIndexIdle
    /\ InitMemIdle

NextClassify == Classify

SpecClassify == InitClassify /\ [][NextClassify]_vars

\* Expansion of one question
InitExpand ==
    /\ questions = <<"q1">>
    /\ callsLeft = 0
    /\ InitCommon
    /\ InitClient
    /\ InitRedis
    /\ InitRetr
    /\ InitFusionIdle
    /\ InitClassIdle
    /\ InitMatchIdle
    /\ InitApiIdle
    /\ InitIndexIdle
    /\ InitMemIdle
    /\ exp_question \in ExpQuestions
    /\ expansions \in ExpansionLists
    /\ prioritized = <<>>
    /\ ephase = "expand"

NextExpand == PreprocessQuery

SpecExpand == InitExpand /\ [][NextExpand]_vars

\* Clause matching of one chunk
InitMatch ==
    /\ questions = <<"q1">>
    /\ callsLeft = 0
    /\ InitCommon
    /\ InitClient
    /\ InitRedis
    /\ InitRetr
    /\ InitFusionIdle
    /\ InitClassIdle
    /\ InitExpIdle
    /\ InitApiIdle
    /\ InitIndexIdle
    /\ InitMemIdle
    /\ match_input \in MatchInputs
    /\ confidence_data = <<>>
    /\ mphase = "match"

NextMatch == CalculateEnhancedConfidence

SpecMatch == InitMatch /\ [][NextMatch]_vars

\* Requests of one client to /hackrx/run
InitApi ==
    /\ questions = <<"q1">>
    /\ callsLeft = 0
    /\ InitCommon
    /\ InitClient
    /\ InitRedis
    /\ InitRetr
    /\ InitFusionIdle
    /\ InitClassIdle
    /\ InitExpIdle
    /\ InitMatchIdle
    /\ InitIndexIdle
    /\ InitMemIdle
    /\ api_pc = "idle"
    /\ api_request = <<>>
    /\ api_status = 0
    /\ api_window = 0
    /\ api_served = 0
    /\ reached = FALSE

NextApi ==
    \/ Arrive
    \/ RateLimitDispatch
    \/ AuthDispatch
    \/ VerifyBearerToken
    \/ ValidateBody
    \/ ProcessHackrxQuery

SpecApi == InitApi /\ [][NextApi]_vars

\* The shared index with one question's retrieval under way: the document of
\* the question has been indexed
InitIndex ==
    /\ questions = <<"q1">>
    /\ callsLeft = 0
    /\ InitCommon
    /\ InitClient
    /\ InitRedis
    /\ InitRetr
    /\ InitFusionIdle
    /\ InitClassIdle
    /\ InitExpIdle
    /\ InitMatchIdle
    /\ InitApiIdle
    /\ InitMemIdle
    /\ faiss_index = [i \in 1..DocSize(ReaderDocument) |-> <<ReaderDocument, i - 1>>]
    /\ chunk_metadata = [i \in 1..DocSize(ReaderDocument) |->
                            [document_id |-> ReaderDocument, chunk_index |-> i - 1]]
    /\ ix_op = <<"add", ReaderDocument, 0>>
    /\ ix_before = [index |-> <<>>, metadata |-> <<>>]
    /\ reader_all = {}
    /\ reader_seen = {}
    /\ reader_left = ReaderSearches
    /\ reader_result = <<>>

NextIndex ==
    \/ IndexAdd
    \/ ClearDocument
    \/ ReaderSearch
    \/ ReaderReturn

SpecIndex == InitIndex /\ [][NextIndex]_vars

\* A new InMemoryCache
InitMem ==
    /\ questions = <<"q1">>
    /\ callsLeft = 0
    /\ InitCommon
    /\ InitClient
    /\ InitRedis
    /\ InitRetr
    /\ InitFusionIdle
    /\ InitClassIdle
    /\ InitExpIdle
    /\ InitMatchIdle
    /\ InitApiIdle
    /\ InitIndexIdle
    /\ mem_cache = <<>>
    /\ ttl_data = <<>>
    /\ mem_now = 0
    /\ mem_result = <<"none">>
    /\ last_set = <<>>

NextMem ==
    \/ \E key \in MemKeys : MemGet(key)
    \/ \E key \in MemKeys, value \in MemValues, ttl \in MemTtls : MemSet(key, value, ttl)
    \/ \E key \in MemKeys : MemDelete(key)
    \/ MemTick

SpecMem == InitMem /\ [][NextMem]_vars
----------------------------------------------------------------------------
(* Claims about the question batch, checked under Spec *)

Returned == phase = "returned"

\* C1: the returned list has len(questions) elements and element i is the
\* answer the task of questions[i] returned, whatever order the tasks
\* completed in.
C1_OrderPreserved ==
    Returned =>
        /\ Len(out) = Len(questions)
        /\ \A i \in Tasks :
              results[i].kind = "value" => out[i] = results[i].answer

\* A batch returned in which two tasks returned different answers
C1_Witness ==
    /\ Returned
    /\ Len(questions) = NumQuestions
    /\ \A i \in Tasks : results[i].kind = "value"
    /\ \E i, j \in Tasks : i < j /\ out[i] # out[j]
    /\ out[1] \in LLMAnswers

\* C2: a question whose processing raised gets the canned apology in its
\* slot, every other question keeps the answer its own task returned, and the
\* call does not fail once the batch has started.
C2_FailureIsolated ==
    /\ Returned =>
          \A i \in raised :
              /\ out[i] = ApologyMsg
              /\ \A j \in Tasks \ raised :
                    results[j].kind = "value" => out[j] = results[j].answer
    /\ raised # {} => phase \in {"batch", "returned"}

\* One question failed in the LLM and a sibling got an LLM answer
C2_Witness ==
    /\ Returned
    /\ \E i \in raised : \E j \in Tasks \ raised :
          out[i] = ApologyMsg /\ out[j] \in LLMAnswers

\* C3 (as claimed): after the batch every slot holds a non-empty string,
\* whichever way each task ended.
C3_NoEmptySlot ==
    Returned =>
        /\ Len(out) = Len(questions)
        /\ \A i \in 1..Len(out) : out[i] # EmptyStr

\* C4 (as claimed): a second identical call made after a first call that
\* produced LLM answers, before any cache entry expired, returns exactly the
\* strings of the first call and starts no LLM generation.
SecondCallWarm ==
    /\ Returned
    /\ prevOut # <<>>
    /\ ~expiredSince
    /\ \A i \in 1..Len(prevOut) : prevOut[i] \in LLMAnswers

C4_SecondCallIdentical ==
    SecondCallWarm => (out = prevOut /\ llmCalls = 0)

\* C4 (amended): the second call starts no LLM generation and returns, for
\* each question, a string the first call returned for that question; for a
\* question that occurs once in the list it is exactly the first call's string.
C4_SecondCallFromCache ==
    SecondCallWarm =>
        /\ llmCalls = 0
        /\ Len(out) = Len(prevOut)
        /\ \A i \in Tasks :
              /\ \E j \in Tasks : questions[j] = questions[i] /\ out[i] = prevOut[j]
              /\ (\A j \in Tasks \ {i} : questions[j] # questions[i])
                    => out[i] = prevOut[i]

\* A warm second call over distinct questions returned the first call's strings
C4_Witness ==
    /\ SecondCallWarm
    /\ \A i, j \in Tasks : i # j => questions[i] # questions[j]
    /\ out = prevOut
    /\ llmCalls = 0
    /\ index # <<>>

\* C5 (as claimed): however often the document is processed, the index holds
\* one vector per chunk of it.
C5_ReingestNoOp ==
    /\ Len(index) <= NumChunks
    /\ \A p, q \in 1..Len(index) :
          (index[p].document_id = index[q].document_id
           /\ index[p].chunk_index = index[q].chunk_index) => p = q

\* C7: at most 3 LLM generations are in flight for the request
C7_AtMostThreeInFlight == Cardinality(InFlight) <= 3

\* Three generations in flight while a further question waits for the semaphore
C7_Witness ==
    /\ Cardinality(InFlight) = 3
    /\ \E i \in Tasks : pc[i] = "waiting"
\* C12: when the document fetch or parse, or the indexing, fails, the call ends
\* in its single failure with no answer list, no question task created and no
\* LLM generation started; questions are processed only with the document
\* indexed.
C12_IngestFailureAborts ==
    /\ phase = "failed" =>
          /\ out = <<>>
          /\ llmCalls = 0
          /\ \A i \in Tasks : pc[i] = "none" /\ results[i] = NoResult
    /\ phase \in {"batch", "returned"} => index # <<>>

\* A call failed after an earlier call of the same caller had returned answers
C12_Witness ==
    /\ phase = "failed"
    /\ prevOut # <<>>
    /\ \E i \in 1..Len(prevOut) : prevOut[i] \in LLMAnswers

\* C13: a question whose retrieval returned no chunk is answered with exactly
\* the literal, no LLM generation is started for it, and every other question
\* keeps the answer of its own task.
C13_EmptyRetrievalLiteral ==
    /\ llmCalls <= Cardinality(DOMAIN pc \ noChunks)
    /\ \A i \in noChunks : pc[i] = "done" /\ i \notin InFlight
    /\ Returned =>
          /\ \A i \in noChunks :
                out[i] = <<"I couldn't find relevant information in the document to answer this question.">>
          /\ \A j \in Tasks \ noChunks :
                results[j].kind = "value" => out[j] = results[j].answer

\* A batch returned with one question without chunks and another answered by the LLM
C13_Witness ==
    /\ Returned
    /\ \E i \in noChunks : \E j \in Tasks \ noChunks :
          out[i] = NoInfoMsg /\ out[j] \in LLMAnswers /\ llmCalls >= 1

----------------------------------------------------------------------------
(* Claims about the LLM client, checked under SpecLLM *)

\* C6 (as claimed): in every 60-second window at most rate_limit
\* generate_content requests are issued through the client, retried attempts
\* included, however the question tasks interleave.
C6_RateLimited == Len(Recent(llmLog, now)) <= RateLimit

\* C8 (as claimed): an attempt that finished with a safety block is retried at
\* most once; when the retry is blocked as well the generate call has failed.
C8_BlockRetriedOnce ==
    \A c \in Callers : blocked[c] >= 2 => lpc[c] = "failed"

\* C8 (amended): an attempt that finished with a safety block is retried like
\* any failed attempt, as long as fewer than 4 attempts have been made; a
\* generate call fails on a block only at its 4th attempt, and once the 4th
\* attempt in a row is blocked the call has failed with the apology as answer.
C8_BlockRetriedUntilFourthAttempt ==
    \A c \in Callers :
        /\ blocked[c] <= 4
        /\ (blocked[c] >= 1 /\ lpc[c] = "failed") => attempt[c] = 4
        /\ blocked[c] = 4 => (lpc[c] = "failed" /\ answers[c] = ApologyMsg)

\* A generate call failed after four attempts in a row were blocked
C8_Witness ==
    \E c \in Callers : blocked[c] = 4 /\ attempt[c] = 4 /\ lpc[c] = "failed"

\* C9: a generate call makes at most 4 attempts (LLM calls), no retry is
\* scheduled after the 4th, and a question whose generate call failed is
\* answered with the apology.
C9_RetriesBounded ==
    \A c \in Callers :
        /\ attempt[c] <= 4
        /\ lpc[c] = "backoff" => attempt[c] < 4
        /\ lpc[c] = "failed" => answers[c] = ApologyMsg

\* A generate call gave up after its 4th attempt failed with a transient error
C9_Witness ==
    \E c \in Callers :
        /\ lpc[c] = "failed"
        /\ attempt[c] = 4
        /\ blocked[c] = 0
        /\ answers[c] = ApologyMsg

\* C10 (as claimed): once daily_tokens_used has passed 95% of the budget, no
\* generate_content request is issued on that day, whichever task attempts it.
C10_BudgetEnforced ==
    [][\A c \in Callers :
          (lpc[c] # "calling" /\ lpc'[c] = "calling")
              => ~(OverQuota(daily_tokens_used) /\ last_reset_date = today)]_vars

\* C26 (as claimed): the rate limiter delays a request exactly when rate_limit
\* requests are recorded in the last 60 seconds.
C26_DelayedAtCapacity ==
    [][\A c \in Callers :
        (lpc[c] = "idle" /\ lpc'[c] # "idle") =>
            (lpc'[c] = "rate_wait" <=> Len(request_times') >= RateLimit)]_vars

\* C26 (amended): the rate limiter delays a request exactly when at least
\* rate_limit - 1 requests are recorded in the last 60 seconds, and a delayed
\* request is issued only once the oldest of them is at least 61 seconds old.
C26_DelayedOneBelowCapacity ==
    [][\A c \in Callers :
        /\ (lpc[c] = "idle" /\ lpc'[c] # "idle") =>
              (lpc'[c] = "rate_wait" <=> Len(request_times') >= RateLimit - 1)
        /\ (lpc[c] = "idle" /\ lpc'[c] = "rate_wait") =>
              /\ \A k \in 1..Len(request_times') : now - request_times'[k] < 60
              /\ \A k \in 1..Len(request_times') : request_times'[1] <= request_times'[k]
              /\ wakeAt'[c] = request_times'[1] + 61
        /\ (lpc[c] = "rate_wait" /\ lpc'[c] # "rate_wait") => now >= wakeAt[c]]_vars

\* a request is delayed with rate_limit - 1 requests recorded, until the oldest
\* is 61 seconds old
C26_Witness ==
    \E c \in Callers :
        /\ lpc[c] = "rate_wait"
        /\ Len(request_times) = RateLimit - 1
        /\ wakeAt[c] = request_times[1] + 61
        /\ now < wakeAt[c]
----------------------------------------------------------------------------
(* Claims about the Redis-backed cache, checked under SpecCache *)

\* C11 (as claimed): a failure of a cache operation, connecting to the backend
\* included, never makes the request fail and never puts the apology into a
\* question's slot (no other failure occurs in this specification).
C11_CacheFailureSwallowed ==
    /\ cphase # "failed"
    /\ \A i \in DOMAIN canswers : canswers[i] # ApologyMsg
----------------------------------------------------------------------------
(* Claims about retrieval, checked under SpecRetrieval *)

Iterations == (0..(NumPasses - 1)) \X (0..(NumVariants - 1))

\* no search returns more hits than the largest k
MaxHits == PassK[1]

\* the boosted scores a chunk was returned with, over the searches of the log
ObservedScores(chunk_id) ==
    {Boosted(hitsLog[a].hits[n].score, hitsLog[a].pass, hitsLog[a].i) :
        <<a, n>> \in {<<a, n>> \in (1..Len(hitsLog)) \X (1..MaxHits) :
                        /\ n <= Len(hitsLog[a].hits)
                        /\ hitsLog[a].hits[n].chunk_id = chunk_id}}

ObservedChunks ==
    {hitsLog[a].hits[n].chunk_id :
        <<a, n>> \in {<<a, n>> \in (1..Len(hitsLog)) \X (1..MaxHits) :
                        n <= Len(hitsLog[a].hits)}}

\* C14: a search that raised is skipped: every variation of every pass is still
\* visited, every chunk hit by a search that returned is in the returned list,
\* and the list is empty only when no search returned a hit.
C14_SearchFailureSkipped ==
    rphase = "done" =>
        /\ {<<hitsLog[a].pass, hitsLog[a].i>> : a \in 1..Len(hitsLog)} \cup failedAt
              = Iterations
        /\ \A c \in ObservedChunks :
              \E r \in 1..Len(relevant_chunks) : relevant_chunks[r].chunk_id = c
        /\ (relevant_chunks = <<>>) <=> (ObservedChunks = {})

\* A search raised between two searches that returned hits, and chunks were returned
C14_Witness ==
    /\ rphase = "done"
    /\ relevant_chunks # <<>>
    /\ \E a \in 1..Len(hitsLog) : \E b \in 1..Len(hitsLog) : \E f \in failedAt :
          /\ hitsLog[a].hits # <<>> /\ hitsLog[b].hits # <<>>
          /\ hitsLog[a].pass * NumVariants + hitsLog[a].i < f[1] * NumVariants + f[2]
          /\ f[1] * NumVariants + f[2] < hitsLog[b].pass * NumVariants + hitsLog[b].i

SetMax(S) == CHOOSE x \in S : \A y \in S : y <= x

RECURSIVE MergeInOrder(_, _)
\* the searches of the log merged in another order
MergeInOrder(order, all) ==
    IF order = <<>> THEN all
    ELSE LET e == hitsLog[Head(order)] IN
         MergeInOrder(Tail(order), MergeSearch(all, e.hits, e.pass, e.i))

ScoreOf(all) == {<<all[k].chunk_id, all[k].score>> : k \in 1..Len(all)}

\* C15: the score kept for a chunk is the maximum of its boosted scores over
\* all the searches that returned it, and merging the searches in any other
\* order keeps the same score for every chunk.
C15_MaxScoreKept ==
    /\ {all_chunks[k].chunk_id : k \in 1..Len(all_chunks)} = ObservedChunks
    /\ \A k \in 1..Len(all_chunks) :
          all_chunks[k].score = SetMax(ObservedScores(all_chunks[k].chunk_id))
    /\ rphase = "done" =>
          \A perm \in Permutations(1..Len(hitsLog)) :
              ScoreOf(MergeInOrder([n \in 1..Len(hitsLog) |-> perm[n]], <<>>))
                  = ScoreOf(all_chunks)

\* A chunk was hit three times: its second score replaced the first and its
\* third score was lower
C15_Witness ==
    /\ rphase = "done"
    /\ \E k \in 1..Len(all_chunks) :
          /\ all_chunks[k].search_pass = 0 /\ all_chunks[k].matched_query = 1
          /\ Cardinality(ObservedScores(all_chunks[k].chunk_id)) = 3

\* the searches of pass 0 in the log, in the order they were made
FirstPassOrder ==
    LET first == {a \in 1..Len(hitsLog) : hitsLog[a].pass = 0}
    IN [n \in 1..Cardinality(first) |->
            CHOOSE a \in first : Cardinality({b \in first : b < a}) = n - 1]

\* C28: when no search fails, the second pass adds no chunk and raises no score:
\* the merged chunks are those of pass 0 alone, the result is the result of pass
\* 0 alone, and every returned hit has search_pass = 0.
C28_SecondPassAddsNothing ==
    failedAt = {} =>
        /\ all_chunks = MergeInOrder(FirstPassOrder, <<>>)
        /\ rphase = "done" =>
            /\ relevant_chunks =
                 SubSeq(SortedByScore(MergeInOrder(FirstPassOrder, <<>>)), 1,
                        Min(15, Len(MergeInOrder(FirstPassOrder, <<>>))))
            /\ \A r \in 1..Len(relevant_chunks) : relevant_chunks[r].search_pass = 0

\* no search failed, and a search of the second pass returned hits, fewer than
\* the search of the first pass for the same variation
C28_Witness ==
    /\ rphase = "done"
    /\ failedAt = {}
    /\ \E a, b \in 1..Len(hitsLog) :
        /\ hitsLog[a].pass = 0 /\ hitsLog[b].pass = 1
        /\ hitsLog[a].i = hitsLog[b].i
        /\ hitsLog[b].hits # <<>>
        /\ Len(hitsLog[b].hits) < Len(hitsLog[a].hits)
----------------------------------------------------------------------------
(* Claims about chunk selection, checked under SpecFusion *)

\* C16 (as claimed): every candidate, with or without a clause match, is ranked
\* by 0.6*vector_score + 0.3*clause_confidence + 0.1*first_pass_bonus, with
\* clause_confidence 0 for a chunk without a clause match.
C16_FusionFormula ==
    \A k \in 1..Len(chunk_scores) :
        chunk_scores[k].combined_score =
            6 * chunk_scores[k].vector_score + 3 * chunk_scores[k].clause_score
              + (IF chunk_scores[k].search_pass = 0 THEN 10 ELSE 0)

\* C17 (as claimed): the prompt holds the top 5 chunks for ordinary query types
\* and 6 to 8 chunks for the complex types when that many were retrieved.
C17_ContextSize ==
    fphase = "done" =>
        IF query_type \in ComplexTypes /\ Len(vector_chunks) >= 6
        THEN Len(llm_chunks) >= 6 /\ Len(llm_chunks) <= 8
        ELSE Len(llm_chunks) = Min(5, Len(vector_chunks))
----------------------------------------------------------------------------
(* Claims about the classifier, checked under SpecClassify *)

C18_Count(qt) ==
    Cardinality({k \in 1..Len(class_question) : qt \in PhraseMatches(class_question[k])})

C18_Types == {"grace_period", "waiting_period", "coverage_details", "exclusions",
              "numerical_limits", "definitions", "uin_regulatory", "air_ambulance",
              "maternity_wellbaby", "table_benefits"}

\* the winner among the types with the highest count, by the given order
C18_Winner(order) ==
    LET top == {i \in 1..Len(order) :
                    /\ C18_Count(order[i]) > 0
                    /\ \A t \in C18_Types : C18_Count(t) <= C18_Count(order[i])}
    IN IF top = {} THEN "general"
       ELSE order[CHOOSE i \in top : \A j \in top : i <= j]

\* C18 (as claimed): the type with the highest count wins; ties go to the first
\* in the order Numerical, UIN, AirAmbulance, MaternityWellBaby, WaitingPeriod,
\* GracePeriod, Exclusion, Definition, Table, Coverage; no match gives General.
C18_ClaimedPriority ==
    classified # "none" =>
        classified = C18_Winner(<<"numerical_limits", "uin_regulatory", "air_ambulance",
                                  "maternity_wellbaby", "waiting_period", "grace_period",
                                  "exclusions", "definitions", "table_benefits",
                                  "coverage_details">>)

\* C18 (amended): the type with the highest count wins; ties go to the first in
\* the order GracePeriod, WaitingPeriod, Coverage, Exclusion, Numerical,
\* Definition, UIN, AirAmbulance, MaternityWellBaby, Table; no match gives General.
C18_DeclarationOrder ==
    classified # "none" =>
        classified = C18_Winner(<<"grace_period", "waiting_period", "coverage_details",
                                  "exclusions", "numerical_limits", "definitions",
                                  "uin_regulatory", "air_ambulance", "maternity_wellbaby",
                                  "table_benefits">>)

\* a tie between GracePeriod and Numerical has been decided
C18_Witness ==
    /\ classified = "grace_period"
    /\ C18_Count("grace_period") = 1
    /\ C18_Count("numerical_limits") = 1
    /\ \A t \in C18_Types : C18_Count(t) <= 1
----------------------------------------------------------------------------
(* Claims about the expander, checked under SpecExpand *)

\* C19: the expander returns at most 20 variants, and no two of them are equal
\* after lower-casing and trimming.
C19_VariantsCappedAndUnique ==
    /\ Len(prioritized) <= 20
    /\ \A i, j \in 1..Len(prioritized) :
        Lower(Strip(prioritized[i])) = Lower(Strip(prioritized[j])) => i = j

\* more than 20 distinct variants, two of them equal up to case and blanks,
\* were generated and 20 are returned
C19_Witness ==
    /\ ephase = "done"
    /\ Len(prioritized) = 20
    /\ Len(expansions) > 20
    /\ \E i, j \in 1..Len(expansions) :
        /\ i < j
        /\ expansions[i] # expansions[j]
        /\ Lower(Strip(expansions[i])) = Lower(Strip(expansions[j]))

\* C20 (as claimed): for every accepted question, of any number of words, the
\* original question is among the variants returned.
C20_OriginalIncluded ==
    ephase = "done" =>
        \E i \in 1..Len(prioritized) : prioritized[i] = exp_question
----------------------------------------------------------------------------
(* Claims about the clause matcher, checked under SpecMatch *)

\* C21 (as claimed): pattern_boost, keyword_density, context_relevance,
\* regulatory_score, length_boost, insurance_boost and confidence all lie in
\* [0,1], with pattern_boost <= 0.5 and insurance_boost <= 0.3.
C21_AllInUnitInterval ==
    \A k \in 1..Len(confidence_data) :
        LET d == confidence_data[k] IN
        /\ d.pattern_boost >= 0 /\ d.pattern_boost <= 500
        /\ d.keyword_density >= 0 /\ d.keyword_density <= 1000
        /\ d.context_relevance >= 0 /\ d.context_relevance <= 1000
        /\ d.regulatory_score >= 0 /\ d.regulatory_score <= 1000
        /\ d.length_boost >= 0 /\ d.length_boost <= 1000
        /\ d.insurance_boost >= 0 /\ d.insurance_boost <= 300
        /\ d.confidence >= 0 /\ d.confidence <= 100000

\* C21 (amended): pattern_boost, keyword_density, context_relevance,
\* regulatory_score, insurance_boost and confidence lie in [0,1], with
\* pattern_boost <= 0.5 and insurance_boost <= 0.3; length_boost lies in
\* [-0.1, 0.15] and is -0.1 exactly for a text of fewer than 15 words.
C21_BoundedWithLengthPenalty ==
    \A k \in 1..Len(confidence_data) :
        LET d == confidence_data[k] IN
        /\ d.pattern_boost >= 0 /\ d.pattern_boost <= 500
        /\ d.keyword_density >= 0 /\ d.keyword_density <= 1000
        /\ d.context_relevance >= 0 /\ d.context_relevance <= 1000
        /\ d.regulatory_score >= 0 /\ d.regulatory_score <= 1000
        /\ d.length_boost >= -100 /\ d.length_boost <= 150
        /\ (d.length_boost = -100 <=> match_input.word_count < 15)
        /\ d.insurance_boost >= 0 /\ d.insurance_boost <= 300
        /\ d.confidence >= 0 /\ d.confidence <= 100000

\* a short text in which the pattern and insurance caps are both reached
C21_Witness ==
    /\ mphase = "done"
    /\ Len(confidence_data) = 1
    /\ match_input.word_count < 15
    /\ confidence_data[1].length_boost < 0
    /\ confidence_data[1].pattern_boost = 500
    /\ confidence_data[1].insurance_boost = 300
    /\ Len(match_input.clause_types) = 3
    /\ match_input.pattern_count > 1
----------------------------------------------------------------------------
(* Claims about the API boundary, checked under SpecApi *)

\* the bearer token of the current request is the configured one
Authenticated ==
    /\ api_request.auth.header = "present"
    /\ api_request.auth.parts = 2
    /\ api_request.auth.scheme = "bearer"
    /\ api_request.auth.token = "good"

\* the question list of the current request is acceptable
QuestionsAcceptable ==
    /\ Len(api_request.questions) >= 1
    /\ Len(api_request.questions) <= 20
    /\ \A k \in 1..Len(api_request.questions) :
        api_request.questions[k] >= 3 /\ api_request.questions[k] <= 500

\* C22 (as claimed): a request whose bearer token is missing or wrong is answered
\* 401 and never reaches the query service.
C22_Unauthorized401 ==
    (api_request # <<>> /\ ~Authenticated) =>
        /\ ~reached
        /\ api_pc = "done" => api_status = 401

\* C22 (amended): a request whose bearer token is missing or wrong never reaches
\* the query service and is answered 401, or 429 when the client is over the
\* request rate limit.
C22_UnauthorizedNeverServed ==
    (api_request # <<>> /\ ~Authenticated) =>
        /\ ~reached
        /\ api_pc \notin {"deps", "body", "endpoint"}
        /\ api_pc = "done" => api_status \in {401, 429}

\* a request with a wrong token has been answered 401
C22_Witness ==
    /\ api_pc = "done"
    /\ api_request.auth.scheme = "bearer"
    /\ api_request.auth.token = "bad"
    /\ api_status = 401
    /\ ~reached

\* C23 (as claimed): an authenticated request whose question list is empty, has
\* more than 20 items or holds a question outside 3..500 characters is rejected
\* with status 400 before any work.
C23_InvalidRejected400 ==
    (/\ api_pc = "done"
     /\ Authenticated
     /\ ~QuestionsAcceptable
     /\ api_status # 429) =>
        /\ api_status = 400
        /\ ~reached
----------------------------------------------------------------------------
(* Claims about the shared index, checked under SpecIndex *)

\* the entries of a sequence that do not belong to the document, in order
WithoutDocument(metadata, document_id) ==
    SelectSeq(metadata, LAMBDA m : m.document_id # document_id)

\* C24: after clear_document(doc_id) the index holds no vector and no metadata
\* entry of doc_id; it holds the chunks of the other documents as before, in the
\* same relative order, with ids 0..n-1, and the metadata at each id describes
\* the vector at that id.
C24_RemoveKeepsOthers ==
    ix_op[1] = "clear" =>
        /\ chunk_metadata = WithoutDocument(ix_before.metadata, ix_op[2])
        /\ Len(faiss_index) = Len(chunk_metadata)
        /\ \A c \in 1..Len(chunk_metadata) :
            /\ chunk_metadata[c].document_id # ix_op[2]
            /\ faiss_index[c] = <<chunk_metadata[c].document_id, chunk_metadata[c].chunk_index>>

\* a document of two chunks was removed from between two other documents
C24_Witness ==
    /\ ix_op[1] = "clear"
    /\ ix_op[2] = "d3"
    /\ Len(ix_before.metadata) = 5
    /\ Len(chunk_metadata) = 3
    /\ ix_before.metadata[3].document_id = "d3"
    /\ chunk_metadata[1].document_id = "d1"
    /\ chunk_metadata[3].document_id = "d2"

\* C25 (as claimed): after any sequence of add and remove operations no two
\* index entries share the same (doc_id, chunk_index).
C25_PairsUnique ==
    \A c, d \in 1..Len(chunk_metadata) :
        (/\ chunk_metadata[c].document_id = chunk_metadata[d].document_id
         /\ chunk_metadata[c].chunk_index = chunk_metadata[d].chunk_index) => c = d

\* C27 (as claimed): every chunk retrieved for a question belongs to the
\* document of the request, whatever else the shared index holds.
C27_OnlyOwnDocument ==
    /\ \A e \in reader_all : e.document_id = ReaderDocument
    /\ \A k \in 1..Len(reader_result) :
        \A e \in reader_result[k] : e.document_id = ReaderDocument

\* C30 (as claimed): during one question's retrieval a chunk_id always denotes
\* the same (doc_id, chunk_index), also when other requests add or remove
\* documents between two of its searches.
C30_ChunkIdStable ==
    \A x, y \in reader_seen : x[1] = y[1] => x = y
----------------------------------------------------------------------------
(* Claims about the in-memory cache, checked under SpecMem *)

\* what get(key) is claimed to return: the value of the latest set of the key,
\* unless the key was deleted since or that set's own ttl has elapsed
LatestSetValue(key) ==
    IF key \notin DOMAIN last_set THEN "None"
    ELSE IF last_set[key].ttl # 0 /\ mem_now > last_set[key].at + last_set[key].ttl
           THEN "None"
           ELSE last_set[key].value

\* C29: get(k) returns the value of the latest set(k) unless k was deleted since
\* or that set's own ttl has elapsed; a value set without a ttl is never
\* expired by the ttl of an earlier set of the key.
C29_GetReturnsLatestSet ==
    [][\A key \in MemKeys : MemGet(key) => mem_result'[3] = LatestSetValue(key)]_vars

\* a get of a key whose latest set had no ttl, after an earlier set with a ttl
\* that has elapsed
C29_Witness ==
    \E key \in MemKeys :
        /\ mem_result = <<"get", key, "None">>
        /\ key \in DOMAIN last_set
        /\ last_set[key].ttl = 0
====
